---- MODULE Spec2Model ----
(***************************************************************************)
(* The webinar scheduling pass of schedule.py (run and its helpers) as a   *)
(* state machine: one pass loads the parameters, initialises the three     *)
(* collaborators, walks the rows of the Sharepoint list and, per row,      *)
(* gathers the webinar properties, creates or updates the remote webinar   *)
(* and reconciles its invitees.  The Sharepoint list and the Webex side    *)
(* are part of the state; every remote call may succeed or fail.           *)
(***************************************************************************)
EXTENDS Integers, Sequences, FiniteSets, TLC

(***************************************************************************)
(* Bounds of the model.                                                    *)
(***************************************************************************)
NumRows == 2        \* rows in the working folder of the list
MaxPasses == 2      \* passes (calls of run) in one behaviour
MaxFailures == 1    \* remote calls that fail in one behaviour

(***************************************************************************)
(* Python values.  A cell of the list and a scalar parameter are strings;  *)
(* None, True and False are strings no cell text equals.                   *)
(***************************************************************************)
NoneVal == "<None>"
TrueVal == "<True>"
FalseVal == "<False>"

\* bool(v) of a cell or parameter value
\* a variant that takes only None for falsy (an unticked Yes/No cell is False)
TruthyNotNone(v) == v # NoneVal

Truthy(v) == v \notin {NoneVal, FalseVal, ""}

\* `a or b`
OrElse(a, b) == IF Truthy(a) THEN a ELSE b

EmptyMap == [e \in {} |-> ""]

\* dict.update / PEP 584 merge: the right operand wins on a shared key
Merge(a, b) == [e \in (DOMAIN a) \cup (DOMAIN b) |-> IF e \in DOMAIN b THEN b[e] ELSE a[e]]

(***************************************************************************)
(* loadParameters: the built-in column table and the optional parameters.  *)
(***************************************************************************)
DefaultColumns ==
    [create |-> "Create", startdatetime |-> "Start Date and Time",
     duration |-> "Duration", title |-> "Title", agenda |-> "Agenda",
     cohosts |-> "Cohosts", panelists |-> "Panelists",
     webinarId |-> "Webinar ID", attendeeUrl |-> "Attendee URL",
     hostKey |-> "Host Key", registrantCount |-> "Registrant Count"]

\* a variant that ignores the overrides of the operator
LoadColumnsDefaultsOnly(overrides) == DefaultColumns

\* SHAREPOINT_PARAMS['columns'] after the env overrides have been applied
LoadColumns(overrides) == Merge(DefaultColumns, overrides)

requiredColumns == {"create", "startdatetime", "title", "webinarId"}

\* The internal name Sharepoint gives a column with this display name.
InternalName(display) ==
    CASE display = "Create" -> "Create"
      [] display = "Start Date and Time" -> "StartDateandTime"
      [] display = "Duration" -> "Duration"
      [] display = "Title" -> "Title"
      [] display = "Session Title" -> "SessionTitle"
      [] display = "Agenda" -> "Agenda"
      [] display = "Cohosts" -> "Cohosts"
      [] display = "Panelists" -> "Panelists"
      [] display = "Webinar ID" -> "WebinarID"
      [] display = "Attendee URL" -> "AttendeeURL"
      [] display = "Host Key" -> "HostKey"
      [] display = "Registrant Count" -> "RegistrantCount"

AllDisplayNames == {DefaultColumns[c] : c \in DOMAIN DefaultColumns}

\* `columns` of initSharepoint: display name -> internal name of the list's fields
FieldsOf(displayNames) == [d \in displayNames |-> InternalName(d)]

\* initSharepoint's spColumnMap: the logical names whose display name is a
\* column of the list, each mapped to that column's internal name
BuildColumnMap(columns, listFields) ==
    [c \in {k \in DOMAIN columns : columns[k] \in DOMAIN listFields} |-> listFields[columns[c]]]

\* set(requiredColumns) - set(spColumnMap.keys())
\* a variant whose required list leaves out the Webinar ID column
columnsDiffNoId(cmap) == (requiredColumns \ {"webinarId"}) \ DOMAIN cmap

columnsDiff(cmap) == requiredColumns \ DOMAIN cmap

(***************************************************************************)
(* getWebinarProperty.  A property is either a scalar (string) or, for a   *)
(* parameter given as a JSON object, a dict of contacts.                   *)
(***************************************************************************)
Scalar(v) == [isDict |-> FALSE, val |-> v, dict |-> EmptyMap]
Dict(d) == [isDict |-> TRUE, val |-> TrueVal, dict |-> d]
NoRow == [c \in {} |-> NoneVal]

\* The row's cell when the column is mapped and the row has the cell (whatever
\* the cell holds), else the parameter of that name, else None.
getWebinarProperty(propertyName, spRow, cmap, wip) ==
    IF propertyName \in DOMAIN cmap /\ cmap[propertyName] \in DOMAIN spRow
    THEN Scalar(spRow[cmap[propertyName]])
    ELSE IF propertyName \in DOMAIN wip THEN wip[propertyName]
    ELSE Scalar(NoneVal)

(***************************************************************************)
(* stringContactsToDict.  getaddresses(str(contacts).split(",")) is given  *)
(* for the contact texts of the model, as email.utils computes it.         *)
(***************************************************************************)
getaddresses(contacts) ==
    CASE contacts = NoneVal -> << <<"", "None">> >>     \* str(None) is "None"
      [] contacts = "" -> << >>
      [] contacts = "Ann <a@x.com>" -> << <<"Ann", "a@x.com">> >>
      [] contacts = "Ann2 <A@X.com>" -> << <<"Ann2", "A@X.com">> >>
      [] contacts = "Bea <b@x.com>" -> << <<"Bea", "b@x.com">> >>
      [] contacts = "b@x.com" -> << <<"", "b@x.com">> >>
      [] contacts = "bea" -> << <<"", "bea">> >>
      [] contacts = "ghost, bob" -> << <<"", "ghost">>, <<"", "bob">> >>
      [] contacts = "Zed <z@x.com>" -> << <<"Zed", "z@x.com">> >>
      [] contacts = "Zoe <a@x.com>" -> << <<"Zoe", "a@x.com">> >>
      [] contacts = "Jane Doe <jane@x.com>, bob@y.com" ->
             << <<"Jane Doe", "jane@x.com">>, <<"", "bob@y.com">> >>
      [] contacts = " Bob , Ann <a@x.com>" -> << <<"", "Bob">>, <<"Ann", "a@x.com">> >>

\* "@" in address
\* a variant that takes every entry for an address
HasAtAlways(address) == TRUE

HasAt(address) ==
    address \in {"a@x.com", "A@X.com", "b@x.com", "z@x.com", "jane@x.com", "bob@y.com"}

\* address.strip().lower()
\* a variant that leaves the case of the address as written
StripOnly(address) == address

StripLower(address) ==
    CASE address = "A@X.com" -> "a@x.com"
      [] address = "None" -> "none"
      [] address = "Bob" -> "bob"
      [] OTHER -> address

RECURSIVE ContactsLoop(_, _, _)
ContactsLoop(pairs, nicknames, res) ==
    IF pairs = << >> THEN res
    ELSE LET contact == Head(pairs)
             nick == StripLower(contact[2])
             next ==
                 IF HasAt(contact[2])
                 THEN Merge(res, StripLower(contact[2]) :>
                                   (IF contact[1] # "" THEN contact[1] ELSE "Panelist"))
                 ELSE IF nick \in DOMAIN nicknames
                      THEN Merge(res, nicknames[nick].email :> nicknames[nick].name)
                      ELSE res
         IN  ContactsLoop(Tail(pairs), nicknames, next)

stringContactsToDict(contacts, nicknames) ==
    ContactsLoop(getaddresses(contacts), nicknames, EmptyMap)

(***************************************************************************)
(* Dates and numbers.  Instants are minutes since 2030-01-01T00:00Z.       *)
(***************************************************************************)
\* datetime.fromisoformat: err is the exception it raises on this text
fromisoformat(s) ==
    CASE s = "2030-01-01T10:00:00Z" -> [err |-> FALSE, aware |-> TRUE, t |-> 10 * 60]
      [] s = "2030-01-01T11:00:00Z" -> [err |-> FALSE, aware |-> TRUE, t |-> 11 * 60]
      [] s = "2030-01-01T10:00:00" -> [err |-> FALSE, aware |-> FALSE, t |-> 10 * 60]
      [] OTHER -> [err |-> TRUE, aware |-> FALSE, t |-> 0]   \* None: TypeError, else ValueError

\* int(float(v)): err is the ValueError
\* a variant that falls back to 60 where int(float(..)) raises
intfloatLenient(v) ==
    CASE v = "90" -> [err |-> FALSE, n |-> 90]
      [] v = "90.0" -> [err |-> FALSE, n |-> 90]
      [] v = "30" -> [err |-> FALSE, n |-> 30]
      [] OTHER -> [err |-> FALSE, n |-> 60]

intfloat(v) ==
    CASE v = "60" -> [err |-> FALSE, n |-> 60]
      [] v = "90" -> [err |-> FALSE, n |-> 90]
      [] v = "90.0" -> [err |-> FALSE, n |-> 90]
      [] v = "30" -> [err |-> FALSE, n |-> 30]
      [] OTHER -> [err |-> TRUE, n |-> 0]

DefaultTitle == "Generic Webinar Title"
DefaultDuration == "60"
DefaultReminder == "30"

\* datetime.utcnow() of the pass
utcnow == 9 * 60 + 45

(***************************************************************************)
(* The property gathering of run (the body of its first try): the event    *)
(* of a row, or the failure of one of its conversions.  A dict parameter   *)
(* taken as the row's panelists is the parameter table's own dict, so the  *)
(* update with the always-invited panelists changes the table too.         *)
(***************************************************************************)
\* a variant in which an explicit panelist keeps its own display name
UpdatePanelistsKeepExplicit(panelists, alwaysInvitePanelists) ==
    Merge(alwaysInvitePanelists, panelists)

\* event['panelists'].update(alwaysInvitePanelists)
UpdatePanelists(panelists, alwaysInvitePanelists) ==
    Merge(panelists, alwaysInvitePanelists)

GatherProperties(spRow, cmap, wip, nicknames) ==
    LET P(name) == getWebinarProperty(name, spRow, cmap, wip)
        title == OrElse(P("title").val, DefaultTitle)
        start == fromisoformat(P("startdatetime").val)
        duration == intfloat(OrElse(P("duration").val, DefaultDuration))
        reminder == intfloat(OrElse(P("reminderTime").val, DefaultReminder))
        cohostsP == P("cohosts")
        cohosts == IF cohostsP.isDict THEN cohostsP.dict
                   ELSE stringContactsToDict(cohostsP.val, nicknames)
        panelistsP == P("panelists")
        panelists0 == IF panelistsP.isDict THEN panelistsP.dict
                      ELSE stringContactsToDict(panelistsP.val, nicknames)
        always == stringContactsToDict(
                      getWebinarProperty("alwaysInvitePanelists", NoRow, cmap, wip).val,
                      nicknames)
        panelists == UpdatePanelists(panelists0, always)
        \* a naive start cannot be compared with the aware "now" (TypeError)
        failed == start.err \/ duration.err \/ reminder.err \/ ~start.aware
    IN  [ok |-> ~failed,
         title |-> title,
         event |-> [title |-> title,
                    agenda |-> P("agenda").val,
                    start |-> start.t,
                    end |-> start.t + duration.n,
                    password |-> P("password").val,
                    reminderTime |-> IF utcnow >= start.t - reminder.n
                                     THEN 0 ELSE reminder.n,
                    cohosts |-> cohosts,
                    panelists |-> panelists,
                    aliased |-> panelistsP.isDict,
                    id |-> P("webinarId").val],
         wip |-> IF ~failed /\ panelistsP.isDict
                 THEN [wip EXCEPT !["panelists"] = Dict(panelists)]
                 ELSE wip]

(***************************************************************************)
(* The state.                                                              *)
(***************************************************************************)
VARIABLES
    env,                \* the process environment: optional parameter JSON
    listFields,         \* the list's columns: display name -> internal name
    rows,               \* the list's rows: row -> (internal name -> cell)
    webinars,           \* Webex: webinar id -> webinar
    invitees,           \* Webex: webinar id -> (email -> invitee)
    nextId,             \* Webex: number of the next webinar created
    SHAREPOINT_PARAMS,  \* global: [columns, nicknames]
    WEBEX_INTEGRATION_PARAMS,   \* global: parameter name -> value
    spColumnMap,        \* global: logical name -> internal name
    pass,               \* number of the current (or last) pass
    pc,                 \* where run is: "idle" between passes
    result,             \* how the last pass ended
    idx,                \* the row the loop is at
    event,              \* the event of the row
    w,                  \* id of the webinar created or fetched for the row
    needUpdateSendEmail,
    listed,             \* history: what meeting_invitees.list returned for the row
    currentInvitees,    \* the uninvite list
    todo,               \* emails of eventInvitees still to be processed
    totalRegistrantCount,
    briefLog,           \* entries of the pass's brief log handler
    fullLog,            \* entries of the pass's full log handler
    posted,             \* what the last finished pass handed to the bot room
    calls,              \* history: the remote calls made, in order
    nfail               \* history: remote calls that failed

\* The other components of the repository.  A pass of run() touches none of
\* their state, and each of them is checked under a specification of its own.
VARIABLES
    item,               \* sp.py: a SharePointItem as dictionary, key -> value
    original_data,      \* sp.py: its _original_data
    patches,            \* history: the field sets sent upstream by save
    session,            \* auth.py: the Flask session of each browser
    uuids,              \* auth.py: how many states uuid4 has produced
    tokenPosts,         \* history: the callbacks that requested tokens
    savedTokens,        \* the tokens in the parameter store
    lines,              \* verbose posting: fullLogString.getvalue().splitlines()
    lineNo,             \* verbose posting: position of the for loop
    current_chunk,      \* verbose posting: the chunk being filled
    parent_id,          \* verbose posting: id of the first message posted
    messages,           \* the bot room: the messages posted, in order
    chunkPc,            \* verbose posting: where the code is
    threads,            \* bot.py: what each request thread of the web server does
    handlers,           \* the handlers attached to the logger of schedule.py
    buffers             \* the log buffers of each thread's pass

saveVars == <<item, original_data, patches>>
authVars == <<session, uuids, tokenPosts, savedTokens>>
chunkVars == <<lines, lineNo, current_chunk, parent_id, messages, chunkPc>>
botVars == <<threads, handlers, buffers>>

schedVars == <<env, listFields, rows, webinars, invitees, nextId, SHAREPOINT_PARAMS,
               WEBEX_INTEGRATION_PARAMS, spColumnMap, pass, pc, result, idx, event, w,
               needUpdateSendEmail, listed, currentInvitees, todo, totalRegistrantCount,
               briefLog, fullLog, posted, calls, nfail>>

vars == <<schedVars, saveVars, authVars, chunkVars, botVars>>

remoteVars == <<webinars, invitees, nextId>>
globalVars == <<SHAREPOINT_PARAMS, WEBEX_INTEGRATION_PARAMS, spColumnMap>>
rowLocals == <<event, w, needUpdateSendEmail, listed, currentInvitees, todo>>
\* what a pass never changes: the environment, the columns of the list, and
\* the state of the other components
constVars == <<env, listFields, saveVars, authVars, chunkVars, botVars>>

NoEvent == [title |-> "", agenda |-> NoneVal, start |-> 0, end |-> 0,
            password |-> NoneVal, reminderTime |-> 0, cohosts |-> EmptyMap,
            panelists |-> EmptyMap, aliased |-> FALSE, id |-> NoneVal]

(***************************************************************************)
(* Logging: the brief handler takes WARNING and above, the full handler    *)
(* INFO and above.                                                         *)
(***************************************************************************)
levelno(lvl) ==
    CASE lvl = "DEBUG" -> 10 [] lvl = "INFO" -> 20 [] lvl = "WARNING" -> 30
      [] lvl = "ERROR" -> 40 [] lvl = "FATAL" -> 50

briefLevel == "WARNING"
fullLevel == "INFO"

Entry(lvl, msg, row) == [lvl |-> lvl, msg |-> msg, row |-> row, names |-> {}]

\* a record whose message lists names
EntryNaming(lvl, msg, names) == [lvl |-> lvl, msg |-> msg, row |-> 0, names |-> names]

\* the handler's buffer after the records `entries` were logged
Handle(buffer, level, entries) ==
    buffer \o SelectSeq(entries, LAMBDA r : levelno(r.lvl) >= levelno(level))

Logged(entries) ==
    /\ briefLog' = Handle(briefLog, briefLevel, entries)
    /\ fullLog' = Handle(fullLog, fullLevel, entries)

(***************************************************************************)
(* The history of remote calls.                                            *)
(***************************************************************************)
Call(op, wid, email, ok, extra) ==
    [pass |-> pass, row |-> idx, op |-> op, wid |-> wid, email |-> email,
     ok |-> ok, name |-> extra.name, coHost |-> extra.coHost,
     sendEmail |-> extra.sendEmail, password |-> extra.password]

NoExtra == [name |-> "", coHost |-> FALSE, sendEmail |-> FALSE, password |-> NoneVal]

\* The outcomes of a remote call: it returns, or raises the SDK's ApiError, or
\* raises another exception (the transport's, say).
Failures == IF nfail < MaxFailures THEN {"ApiError", "Exception"} ELSE {}
AnyFailure == IF nfail < MaxFailures THEN {"Exception"} ELSE {}

(***************************************************************************)
(* run, up to the loop: loadParameters, initSharepoint,                    *)
(* initWebexIntegration, initWebexBot.  Each step can fail; the first      *)
(* failure is fatal (SystemExit).  The column map is checked after the     *)
(* list has been reached and before Webex is initialised.                  *)
(***************************************************************************)
InitFailures ==
    IF nfail < MaxFailures
    THEN {"env", "paramstore", "sharepoint", "webex", "bot"} ELSE {}

\* a variant in which a failed bot initialisation does not stop the pass
InitOutcomeLenient(o, cmap) ==
    IF o \in {"env", "paramstore", "sharepoint"} THEN o
    ELSE IF columnsDiff(cmap) # {} THEN "columns"
    ELSE IF o = "bot" THEN "ok"
    ELSE o

InitOutcome(o, cmap) ==
    IF o \in {"env", "paramstore", "sharepoint"} THEN o
    ELSE IF columnsDiff(cmap) # {} THEN "columns"
    ELSE o

\* the fatal record of a failed initialisation; the column mapping error lists
\* the required columns that are missing
FatalEntry(outcome, cmap) ==
    EntryNaming("FATAL", outcome, IF outcome = "columns" THEN columnsDiff(cmap) ELSE {})

StartPass ==
    /\ pc = "idle"
    /\ pass < MaxPasses
    /\ \E o \in {"ok"} \cup InitFailures :
         LET columns == LoadColumns(env.columns)
             cmap == BuildColumnMap(columns, listFields)
             outcome == InitOutcome(o, cmap)
         IN  /\ pass' = pass + 1
             /\ nfail' = IF o = "ok" THEN nfail ELSE nfail + 1
             \* history: the initialisation of this pass and the step that failed
             /\ calls' = Append(calls, [pass |-> pass + 1, row |-> 0, op |-> "init",
                                        wid |-> NoneVal, email |-> o, ok |-> o = "ok",
                                        name |-> "", coHost |-> FALSE,
                                        sendEmail |-> FALSE, password |-> NoneVal])
             \* loadParameters sets the optional parameters after the required ones
             /\ SHAREPOINT_PARAMS' =
                    IF outcome = "env" THEN SHAREPOINT_PARAMS
                    ELSE [columns |-> columns, nicknames |-> env.nicknames]
             /\ WEBEX_INTEGRATION_PARAMS' =
                    IF outcome = "env" THEN WEBEX_INTEGRATION_PARAMS ELSE env.wip
             /\ spColumnMap' =
                    IF outcome \in {"env", "paramstore", "sharepoint"} THEN spColumnMap
                    ELSE cmap
             /\ briefLog' = Handle(<< >>, briefLevel,
                    << Entry("WARNING", "Starting...", 0) >> \o
                    (IF outcome = "ok" THEN << >> ELSE << FatalEntry(outcome, cmap) >>))
             /\ fullLog' = Handle(<< >>, fullLevel,
                    << Entry("WARNING", "Starting...", 0),
                       Entry("INFO", "Loading parameters", 0) >> \o
                    (IF outcome = "ok"
                     THEN << Entry("INFO", "Successfully initialized", 0) >>
                     ELSE << FatalEntry(outcome, cmap) >>))
             /\ IF outcome = "ok"
                THEN pc' = "loop" /\ result' = "running"
                ELSE pc' = "idle" /\ result' = "aborted"
    /\ idx' = 1
    /\ totalRegistrantCount' = 0
    /\ UNCHANGED <<constVars, rows, remoteVars, rowLocals, posted>>

(***************************************************************************)
(* The loop over the rows.                                                 *)
(***************************************************************************)
\* `continue`, or the end of the loop body: on to the next row
NextRow ==
    /\ idx' = idx + 1
    /\ pc' = "loop"
    /\ event' = NoEvent
    /\ w' = NoneVal
    /\ needUpdateSendEmail' = FALSE
    /\ listed' = EmptyMap
    /\ currentInvitees' = EmptyMap
    /\ todo' = << >>

\* an exception no handler of run catches ends the pass where it is
Crash ==
    /\ pc' = "idle"
    /\ result' = "crashed"
    /\ UNCHANGED <<idx, rowLocals, briefLog, fullLog>>

InLoop == pc = "loop" /\ idx <= NumRows

spRow == rows[idx]

\* `if spRow.properties[spColumnMap['create']]` is false: nothing is done
SkipRow ==
    /\ InLoop
    /\ ~Truthy(spRow[spColumnMap["create"]])
    /\ idx' = idx + 1
    /\ UNCHANGED <<constVars, rows, remoteVars, globalVars, pass, pc, result, rowLocals,
                   totalRegistrantCount, briefLog, fullLog, posted, calls, nfail>>

Gathered ==
    GatherProperties(spRow, spColumnMap, WEBEX_INTEGRATION_PARAMS,
                     SHAREPOINT_PARAMS.nicknames)

\* a property of the row is not valid: the row is logged and skipped
InvalidRow ==
    /\ InLoop
    /\ Truthy(spRow[spColumnMap["create"]])
    /\ ~Gathered.ok
    /\ Logged(<< Entry("INFO", "", idx), Entry("ERROR", "Failed to process", idx) >>)
    /\ idx' = idx + 1
    /\ UNCHANGED <<constVars, rows, remoteVars, globalVars, pass, pc, result, rowLocals,
                   totalRegistrantCount, posted, calls, nfail>>

\* the properties are gathered: on to create (no webinar id) or update
GatherRow ==
    /\ InLoop
    /\ Truthy(spRow[spColumnMap["create"]])
    /\ Gathered.ok
    /\ event' = Gathered.event
    /\ WEBEX_INTEGRATION_PARAMS' = Gathered.wip
    /\ Logged(<< Entry("INFO", "", idx), Entry("INFO", "Processing", idx) >>)
    /\ pc' = IF ~Truthy(Gathered.event.id) THEN "create" ELSE "get"
    /\ UNCHANGED <<constVars, rows, remoteVars, SHAREPOINT_PARAMS, spColumnMap, pass,
                   result, idx, w, needUpdateSendEmail, listed, currentInvitees, todo,
                   totalRegistrantCount, posted, calls, nfail>>

(***************************************************************************)
(* A row without webinar id: create the webinar, write its id back.        *)
(***************************************************************************)
WebinarId(n) == "w" \o ToString(n)

\* what Webex stores for a webinar created or updated with these properties
\* (it generates a password when none is given)
WebinarOf(ev, password) ==
    [title |-> ev.title, agenda |-> ev.agenda, start |-> ev.start, end |-> ev.end,
     password |-> password]

GeneratedPassword == "generated"

\* webexApi.meetings.create; only the SDK's ApiError is caught
CreateWebinar ==
    /\ pc = "create"
    /\ \E o \in {"ok"} \cup Failures :
         LET id == WebinarId(nextId)
             extra == [NoExtra EXCEPT !.name = event.title, !.password = event.password]
         IN  /\ calls' = Append(calls, Call("meetings.create", IF o = "ok" THEN id ELSE NoneVal,
                                            "", o = "ok", extra))
             /\ nfail' = IF o = "ok" THEN nfail ELSE nfail + 1
             /\ CASE o = "ok" ->
                       /\ webinars' = webinars @@
                              (id :> WebinarOf(event, OrElse(event.password, GeneratedPassword)))
                       /\ invitees' = invitees @@ (id :> EmptyMap)
                       /\ nextId' = nextId + 1
                       /\ w' = id
                       /\ pc' = "writeback"
                       /\ Logged(<< Entry("WARNING", "Created webinar", idx) >>)
                       /\ UNCHANGED <<idx, result, event, needUpdateSendEmail, listed,
                                      currentInvitees, todo>>
                  [] o = "ApiError" ->
                       /\ Logged(<< Entry("ERROR", "Failed to create webinar", idx) >>)
                       /\ NextRow
                       /\ UNCHANGED <<remoteVars, result>>
                  [] o = "Exception" ->
                       /\ Crash
                       /\ UNCHANGED remoteVars
    /\ UNCHANGED <<constVars, rows, globalVars, pass, totalRegistrantCount, posted>>

\* the cells set_property has set, sent by spRow.update().execute_query()
SetCells(row, cells) == [c \in DOMAIN row |-> IF c \in DOMAIN cells THEN cells[c] ELSE row[c]]

HostKeyOf(id) == "hostkey"
RegisterLinkOf(id) == "registerLink"

\* a variant of the write-back that saves the host key and the registration
\* link but not the webinar id
CreatedCellsNoId ==
    (IF "hostKey" \in DOMAIN spColumnMap
     THEN spColumnMap["hostKey"] :> HostKeyOf(w) ELSE EmptyMap) @@
    (IF "attendeeUrl" \in DOMAIN spColumnMap
     THEN spColumnMap["attendeeUrl"] :> RegisterLinkOf(w) ELSE EmptyMap)

CreatedCells ==
    (IF "webinarId" \in DOMAIN spColumnMap
     THEN spColumnMap["webinarId"] :> w ELSE EmptyMap) @@
    (IF "hostKey" \in DOMAIN spColumnMap
     THEN spColumnMap["hostKey"] :> HostKeyOf(w) ELSE EmptyMap) @@
    (IF "attendeeUrl" \in DOMAIN spColumnMap
     THEN spColumnMap["attendeeUrl"] :> RegisterLinkOf(w) ELSE EmptyMap)

CreatedColumnLogs ==
    (IF "webinarId" \in DOMAIN spColumnMap THEN << >>
     ELSE << Entry("ERROR", "No column to save Webinar ID", idx) >>) \o
    (IF "hostKey" \in DOMAIN spColumnMap THEN << >>
     ELSE << Entry("INFO", "No column to save Host Key", idx) >>) \o
    (IF "attendeeUrl" \in DOMAIN spColumnMap THEN << >>
     ELSE << Entry("INFO", "No column to save Attendee URL", idx) >>)

\* the new webinar's id, host key and registration link go into the row; a
\* failure of the save is logged and the row goes on to its invitees
\* a variant that goes on to the invitees without writing the row
WriteBackCreatedSkipped ==
    /\ pc = "writeback"
    /\ pc' = "list"
    /\ UNCHANGED <<constVars, rows, remoteVars, globalVars, pass, result, idx, rowLocals,
                   totalRegistrantCount, briefLog, fullLog, posted, calls, nfail>>

\* a variant that leaves the row when the write-back fails
WriteBackCreatedGivingUp ==
    /\ pc = "writeback"
    /\ \E o \in {"ok"} \cup AnyFailure :
         /\ calls' = Append(calls, Call("row.update", w, "", o = "ok", NoExtra))
         /\ nfail' = IF o = "ok" THEN nfail ELSE nfail + 1
         /\ IF o = "ok"
            THEN /\ rows' = [rows EXCEPT ![idx] = SetCells(@, CreatedCells)]
                 /\ Logged(CreatedColumnLogs \o
                           << Entry("INFO", "Updated webinar information into Sharepoint list", idx) >>)
            ELSE /\ rows' = rows
                 /\ Logged(CreatedColumnLogs \o
                           << Entry("ERROR", "Failed to update created webinar information", idx) >>)
         /\ IF o = "ok" THEN pc' = "list" /\ UNCHANGED <<idx, rowLocals>> ELSE NextRow
    /\ UNCHANGED <<constVars, remoteVars, globalVars, pass, result,
                   totalRegistrantCount, posted>>

WriteBackCreated ==
    /\ pc = "writeback"
    /\ \E o \in {"ok"} \cup AnyFailure :
         /\ calls' = Append(calls, Call("row.update", w, "", o = "ok", NoExtra))
         /\ nfail' = IF o = "ok" THEN nfail ELSE nfail + 1
         /\ IF o = "ok"
            THEN /\ rows' = [rows EXCEPT ![idx] = SetCells(@, CreatedCells)]
                 /\ Logged(CreatedColumnLogs \o
                           << Entry("INFO", "Updated webinar information into Sharepoint list", idx) >>)
            ELSE /\ rows' = rows
                 /\ Logged(CreatedColumnLogs \o
                           << Entry("ERROR", "Failed to update created webinar information", idx) >>)
    /\ pc' = "list"
    /\ UNCHANGED <<constVars, remoteVars, globalVars, pass, result, idx, rowLocals,
                   totalRegistrantCount, posted>>

(***************************************************************************)
(* A row with a webinar id: fetch the webinar, update it when it differs.  *)
(***************************************************************************)
\* title, start or end differ: the update is announced by email
\* a variant that also notifies on an agenda change
NeedUpdateSendEmailAgenda(ev, webinar) ==
    \/ ev.title # webinar.title
    \/ ev.start # webinar.start
    \/ ev.end # webinar.end
    \/ ev.agenda # webinar.agenda

NeedUpdateSendEmail(ev, webinar) ==
    \/ ev.title # webinar.title
    \/ ev.start # webinar.start
    \/ ev.end # webinar.end

\* a variant that updates the webinar on every pass
NeedUpdateAlways(ev, webinar) == TRUE

\* needUpdate: any of title, agenda, start, end differs
NeedUpdate(ev, webinar) ==
    \/ NeedUpdateSendEmail(ev, webinar)
    \/ ev.agenda # webinar.agenda

\* webexApi.meetings.get and the comparison; only ApiError is caught
GetWebinar ==
    /\ pc = "get"
    /\ \E o \in (IF event.id \in DOMAIN webinars THEN {"ok"} \cup Failures ELSE {"ApiError"}) :
         /\ calls' = Append(calls, Call("meetings.get", event.id, "", o = "ok", NoExtra))
         /\ nfail' = IF o = "ok" \/ event.id \notin DOMAIN webinars THEN nfail ELSE nfail + 1
         /\ CASE o = "ok" ->
                   /\ w' = event.id
                   /\ needUpdateSendEmail' = NeedUpdateSendEmail(event, webinars[event.id])
                   /\ pc' = IF NeedUpdate(event, webinars[event.id]) THEN "update" ELSE "count"
                   /\ UNCHANGED <<idx, result, event, listed, currentInvitees, todo,
                                  briefLog, fullLog>>
              [] o = "ApiError" ->
                   /\ Logged(<< Entry("ERROR", "Failed to update webinar", idx) >>)
                   /\ NextRow
                   /\ UNCHANGED result
              [] o = "Exception" -> Crash
    /\ UNCHANGED <<constVars, rows, remoteVars, globalVars, pass, totalRegistrantCount, posted>>

\* a variant that sends the password of the row's intent alone
UpdatePasswordIntentOnly(ev, webinar) == ev.password

\* password=event['password'] or w.password
UpdatePassword(ev, webinar) == OrElse(ev.password, webinar.password)

\* webexApi.meetings.update: password is the event's, or else the fetched webinar's
UpdateWebinar ==
    /\ pc = "update"
    /\ \E o \in {"ok"} \cup Failures :
         LET password == UpdatePassword(event, webinars[w])
             extra == [NoExtra EXCEPT !.name = event.title, !.password = password,
                                      !.sendEmail = needUpdateSendEmail]
         IN  /\ calls' = Append(calls, Call("meetings.update", w, "", o = "ok", extra))
             /\ nfail' = IF o = "ok" THEN nfail ELSE nfail + 1
             /\ CASE o = "ok" ->
                       /\ webinars' = [webinars EXCEPT ![w] = WebinarOf(event, password)]
                       /\ pc' = "count"
                       /\ Logged(<< Entry("WARNING", "Updated webinar information", idx) >>)
                       /\ UNCHANGED <<idx, result, rowLocals>>
                  [] o = "ApiError" ->
                       /\ Logged(<< Entry("ERROR", "Failed to update webinar", idx) >>)
                       /\ NextRow
                       /\ UNCHANGED <<webinars, result>>
                  [] o = "Exception" ->
                       /\ Crash
                       /\ UNCHANGED webinars
    /\ UNCHANGED <<constVars, rows, invitees, nextId, globalVars, pass,
                   totalRegistrantCount, posted>>

\* a variant in which the count of a row replaces the total
AddRegistrantsReplacing(total, registrantCount) == registrantCount

\* totalRegistrantCount += registrantCount
AddRegistrants(total, registrantCount) == total + registrantCount

\* a variant that gives up the row when the count is not saved
RefreshCountSkipping ==
    /\ pc = "count"
    /\ \E o \in {"ok"} \cup (IF nfail < MaxFailures THEN {"list", "save"} ELSE {}) :
         LET registrantCount == Cardinality(DOMAIN invitees[w])
             mapped == "registrantCount" \in DOMAIN spColumnMap
             listCall == Call("meeting_invitees.list", w, "", o # "list", NoExtra)
             saved == Call("row.update", w, "", o = "ok", NoExtra)
         IN  /\ o = "save" => mapped
             /\ nfail' = IF o = "ok" THEN nfail ELSE nfail + 1
             /\ totalRegistrantCount' =
                    IF o = "list" THEN totalRegistrantCount
                    ELSE AddRegistrants(totalRegistrantCount, registrantCount)
             /\ calls' = IF o # "list" /\ mapped THEN calls \o << listCall, saved >>
                         ELSE Append(calls, listCall)
             /\ rows' = IF o = "ok" /\ mapped
                        THEN [rows EXCEPT ![idx] = SetCells(@,
                                 spColumnMap["registrantCount"] :> ToString(registrantCount))]
                        ELSE rows
             /\ Logged(IF o = "ok" /\ mapped
                       THEN << Entry("INFO", "Refreshed webinar Registration Count", idx) >>
                       ELSE << Entry("ERROR", "Failed to refresh webinar Registration Count", idx) >>)
             /\ IF o = "ok" /\ mapped
                THEN pc' = "list" /\ UNCHANGED <<idx, rowLocals>>
                ELSE NextRow
    /\ UNCHANGED <<constVars, remoteVars, globalVars, pass, result, posted>>

\* the registrant count of the webinar is counted, added to the total and
\* saved into the row; every failure here is logged only
RefreshCount ==
    /\ pc = "count"
    /\ \E o \in {"ok"} \cup (IF nfail < MaxFailures THEN {"list", "save"} ELSE {}) :
         LET registrantCount == Cardinality(DOMAIN invitees[w])
             mapped == "registrantCount" \in DOMAIN spColumnMap
             listCall == Call("meeting_invitees.list", w, "", o # "list", NoExtra)
             saved == Call("row.update", w, "", o = "ok", NoExtra)
         IN  /\ o = "save" => mapped
             /\ nfail' = IF o = "ok" THEN nfail ELSE nfail + 1
             /\ totalRegistrantCount' =
                    IF o = "list" THEN totalRegistrantCount
                    ELSE AddRegistrants(totalRegistrantCount, registrantCount)
             /\ calls' = IF o # "list" /\ mapped THEN calls \o << listCall, saved >>
                         ELSE Append(calls, listCall)
             /\ rows' = IF o = "ok" /\ mapped
                        THEN [rows EXCEPT ![idx] = SetCells(@,
                                 spColumnMap["registrantCount"] :> ToString(registrantCount))]
                        ELSE rows
             /\ Logged(IF o = "ok" /\ mapped
                       THEN << Entry("INFO", "Refreshed webinar Registration Count", idx) >>
                       ELSE << Entry("ERROR", "Failed to refresh webinar Registration Count", idx) >>)
    /\ pc' = "list"
    /\ UNCHANGED <<constVars, remoteVars, globalVars, pass, result, idx, rowLocals, posted>>

(***************************************************************************)
(* The invitees of the row's webinar.                                      *)
(***************************************************************************)
\* The loops go through a dict in insertion order; an iteration touches its
\* own email only, and the model takes the emails in this order.
EmailOrder == << "a@x.com", "b@x.com", "c@x.com", "r@x.com", "z@x.com",
                 "B@x.com", "n@x.com", "jane@x.com", "bob@y.com" >>

InOrder(emails) == SelectSeq(EmailOrder, LAMBDA e : e \in emails)

\* a variant of the removal that leaves the map as it is
WithoutNothing(map, e) == map

Without(map, e) == [k \in (DOMAIN map) \ {e} |-> map[k]]

\* the invitees listed that are panelist or cohost, by email
\* a variant that keeps only the invitees flagged co-host
UninviteListCohosts(response) ==
    [e \in {k \in DOMAIN response : response[k].coHost} |-> response[e]]

UninviteList(response) ==
    [e \in {k \in DOMAIN response : response[k].panelist \/ response[k].coHost} |->
        response[e]]

\* what meeting_invitees.list(w.id, panelist=True) returns: the panelists
PanelistsListed(all) == [e \in {k \in DOMAIN all : all[k].panelist} |-> all[e]]

\* a variant that takes every remote invitee for the uninvite list
CurrentInviteesEveryone(all) == all

\* currentInvitees: of the panelists listed, those flagged panelist or co-host
CurrentInvitees(all) == UninviteList(PanelistsListed(all))

noCohosts == Truthy(getWebinarProperty("noCohosts", NoRow, spColumnMap,
                                       WEBEX_INTEGRATION_PARAMS).val)

\* event['panelists'] and event['cohosts'] once noCohosts has been applied
PanelistsOf(ev, collapse) == IF collapse THEN Merge(ev.panelists, ev.cohosts) ELSE ev.panelists
\* a variant that keeps the cohosts under noCohosts
CohostsOfKept(ev, collapse) == ev.cohosts

CohostsOf(ev, collapse) == IF collapse THEN EmptyMap ELSE ev.cohosts

\* a variant of the union in which the panelist entry wins
EventInviteesPanelistNames(ev) == Merge(ev.cohosts, ev.panelists)

\* event['panelists'] | event['cohosts']
EventInvitees(ev) == Merge(ev.panelists, ev.cohosts)

eventInvitees == EventInvitees(event)

\* a variant that goes on to invite the row's contacts when the listing failed
ListInviteesGoingOn ==
    /\ pc = "list"
    /\ \E o \in {"ok"} \cup AnyFailure :
         /\ calls' = Append(calls, Call("meeting_invitees.list", w, "", o = "ok", NoExtra))
         /\ nfail' = IF o = "ok" THEN nfail ELSE nfail + 1
         /\ IF o = "ok"
            THEN LET ev == [event EXCEPT !.panelists = PanelistsOf(event, noCohosts),
                                         !.cohosts = CohostsOf(event, noCohosts)]
                 IN  /\ event' = ev
                     /\ WEBEX_INTEGRATION_PARAMS' =
                            IF event.aliased /\ noCohosts
                            THEN [WEBEX_INTEGRATION_PARAMS EXCEPT
                                      !["panelists"] = Dict(ev.panelists)]
                            ELSE WEBEX_INTEGRATION_PARAMS
                     /\ listed' = PanelistsListed(invitees[w])
                     /\ currentInvitees' = CurrentInvitees(invitees[w])
                     /\ todo' = InOrder(DOMAIN EventInvitees(ev))
                     /\ pc' = "invitees"
                     /\ UNCHANGED <<idx, w, needUpdateSendEmail, briefLog, fullLog>>
            ELSE /\ Logged(<< Entry("ERROR", "Failed to process invitees", idx) >>)
                 /\ listed' = EmptyMap
                 /\ currentInvitees' = EmptyMap
                 /\ todo' = InOrder(DOMAIN EventInvitees(event))
                 /\ pc' = "invitees"
                 /\ UNCHANGED <<idx, w, event, needUpdateSendEmail, WEBEX_INTEGRATION_PARAMS>>
    /\ UNCHANGED <<constVars, rows, remoteVars, SHAREPOINT_PARAMS, spColumnMap, pass,
                   result, totalRegistrantCount, posted>>

\* webexApi.meeting_invitees.list and, when it returns, the merge of the
\* cohosts into the panelists under noCohosts
ListInvitees ==
    /\ pc = "list"
    /\ \E o \in {"ok"} \cup AnyFailure :
         /\ calls' = Append(calls, Call("meeting_invitees.list", w, "", o = "ok", NoExtra))
         /\ nfail' = IF o = "ok" THEN nfail ELSE nfail + 1
         /\ IF o = "ok"
            THEN LET ev == [event EXCEPT !.panelists = PanelistsOf(event, noCohosts),
                                         !.cohosts = CohostsOf(event, noCohosts)]
                 IN  /\ event' = ev
                     /\ WEBEX_INTEGRATION_PARAMS' =
                            IF event.aliased /\ noCohosts
                            THEN [WEBEX_INTEGRATION_PARAMS EXCEPT
                                      !["panelists"] = Dict(ev.panelists)]
                            ELSE WEBEX_INTEGRATION_PARAMS
                     /\ listed' = PanelistsListed(invitees[w])
                     /\ currentInvitees' = CurrentInvitees(invitees[w])
                     /\ todo' = InOrder(DOMAIN EventInvitees(ev))
                     /\ pc' = "invitees"
                     /\ UNCHANGED <<idx, w, needUpdateSendEmail, briefLog, fullLog>>
            ELSE /\ Logged(<< Entry("ERROR", "Failed to process invitees", idx) >>)
                 /\ NextRow
                 /\ UNCHANGED WEBEX_INTEGRATION_PARAMS
    /\ UNCHANGED <<constVars, rows, remoteVars, SHAREPOINT_PARAMS, spColumnMap, pass,
                   result, totalRegistrantCount, posted>>

\* the invitee an invitee create or update asks Webex for
\* a variant that does not make a co-host a panelist
InviteeOfPanelistsOnly(ev, email) ==
    [displayName |-> EventInvitees(ev)[email],
     panelist |-> email \in DOMAIN ev.panelists,
     coHost |-> email \in DOMAIN ev.cohosts]

InviteeOf(ev, email) ==
    [displayName |-> EventInvitees(ev)[email],
     panelist |-> email \in DOMAIN ev.panelists \/ email \in DOMAIN ev.cohosts,
     coHost |-> email \in DOMAIN ev.cohosts]

\* name or status changed
\* a variant that compares the co-host intent with the remote panelist flag
InviteeChangedByPanelist(ev, email, current) ==
    \/ EventInvitees(ev)[email] # current.displayName
    \/ (email \in DOMAIN ev.cohosts) # current.panelist

\* a variant that compares the display name only
InviteeChangedNameOnly(ev, email, current) ==
    EventInvitees(ev)[email] # current.displayName

InviteeChanged(ev, email, current) ==
    \/ EventInvitees(ev)[email] # current.displayName
    \/ (email \in DOMAIN ev.cohosts) # current.coHost

InviteeExtra(email) ==
    [NoExtra EXCEPT !.name = InviteeOf(event, email).displayName,
                    !.coHost = InviteeOf(event, email).coHost,
                    !.sendEmail = TRUE]

InInvitees == pc = "invitees" /\ todo # << >>

\* an invited email whose name or status changed: update, and off the uninvite list
\* a variant that leaves an email whose update failed in the uninvite list
UpdateInviteeKeepsFailed ==
    /\ InInvitees
    /\ LET email == Head(todo) IN
         /\ email \in DOMAIN currentInvitees
         /\ InviteeChanged(event, email, currentInvitees[email])
         /\ \E o \in {"ok"} \cup AnyFailure :
              /\ calls' = Append(calls, Call("meeting_invitees.update", w, email, o = "ok",
                                             InviteeExtra(email)))
              /\ nfail' = IF o = "ok" THEN nfail ELSE nfail + 1
              /\ invitees' = IF o = "ok"
                             THEN [invitees EXCEPT ![w] = Merge(@, email :> InviteeOf(event, email))]
                             ELSE invitees
              /\ Logged(IF o = "ok" THEN << Entry("INFO", "Updated invitee", idx) >>
                        ELSE << Entry("ERROR", "Failed to update invitee", idx) >>)
              /\ currentInvitees' = IF o = "ok" THEN Without(currentInvitees, email)
                                     ELSE currentInvitees
    /\ todo' = Tail(todo)
    /\ UNCHANGED <<constVars, rows, webinars, nextId, globalVars, pass, pc, result, idx,
                   event, w, needUpdateSendEmail, listed, totalRegistrantCount, posted>>

UpdateInvitee ==
    /\ InInvitees
    /\ LET email == Head(todo) IN
         /\ email \in DOMAIN currentInvitees
         /\ InviteeChanged(event, email, currentInvitees[email])
         /\ \E o \in {"ok"} \cup AnyFailure :
              /\ calls' = Append(calls, Call("meeting_invitees.update", w, email, o = "ok",
                                             InviteeExtra(email)))
              /\ nfail' = IF o = "ok" THEN nfail ELSE nfail + 1
              /\ invitees' = IF o = "ok"
                             THEN [invitees EXCEPT ![w] = Merge(@, email :> InviteeOf(event, email))]
                             ELSE invitees
              /\ Logged(IF o = "ok" THEN << Entry("INFO", "Updated invitee", idx) >>
                        ELSE << Entry("ERROR", "Failed to update invitee", idx) >>)
         /\ currentInvitees' = Without(currentInvitees, email)
    /\ todo' = Tail(todo)
    /\ UNCHANGED <<constVars, rows, webinars, nextId, globalVars, pass, pc, result, idx,
                   event, w, needUpdateSendEmail, listed, totalRegistrantCount, posted>>

\* an invited email with the same name and status: off the uninvite list
KeepInvitee ==
    /\ InInvitees
    /\ LET email == Head(todo) IN
         /\ email \in DOMAIN currentInvitees
         /\ ~InviteeChanged(event, email, currentInvitees[email])
         /\ currentInvitees' = Without(currentInvitees, email)
    /\ todo' = Tail(todo)
    /\ UNCHANGED <<constVars, rows, remoteVars, globalVars, pass, pc, result, idx,
                   event, w, needUpdateSendEmail, listed, totalRegistrantCount, briefLog,
                   fullLog, posted, calls, nfail>>

\* a variant of the create that gives up the row's invitees when the call fails
CreateInviteeAborting ==
    /\ InInvitees
    /\ LET email == Head(todo) IN
         /\ email \notin DOMAIN currentInvitees
         /\ \E o \in {"ok"} \cup AnyFailure :
              /\ calls' = Append(calls, Call("meeting_invitees.create", w, email, o = "ok",
                                             InviteeExtra(email)))
              /\ nfail' = IF o = "ok" THEN nfail ELSE nfail + 1
              /\ invitees' = IF o = "ok"
                             THEN [invitees EXCEPT ![w] = Merge(@, email :> InviteeOf(event, email))]
                             ELSE invitees
              /\ Logged(IF o = "ok" THEN << Entry("INFO", "Invited", idx) >>
                        ELSE << Entry("ERROR", "Failed to create invitee", idx) >>)
              /\ todo' = IF o = "ok" THEN Tail(todo) ELSE << >>
              /\ currentInvitees' = IF o = "ok" THEN currentInvitees ELSE EmptyMap
    /\ UNCHANGED <<constVars, rows, webinars, nextId, globalVars, pass, pc, result, idx,
                   event, w, needUpdateSendEmail, listed, totalRegistrantCount, posted>>

\* an email not invited yet: create
CreateInvitee ==
    /\ InInvitees
    /\ LET email == Head(todo) IN
         /\ email \notin DOMAIN currentInvitees
         /\ \E o \in {"ok"} \cup AnyFailure :
              /\ calls' = Append(calls, Call("meeting_invitees.create", w, email, o = "ok",
                                             InviteeExtra(email)))
              /\ nfail' = IF o = "ok" THEN nfail ELSE nfail + 1
              /\ invitees' = IF o = "ok"
                             THEN [invitees EXCEPT ![w] = Merge(@, email :> InviteeOf(event, email))]
                             ELSE invitees
              /\ Logged(IF o = "ok" THEN << Entry("INFO", "Invited", idx) >>
                        ELSE << Entry("ERROR", "Failed to create invitee", idx) >>)
    /\ todo' = Tail(todo)
    /\ UNCHANGED <<constVars, rows, webinars, nextId, globalVars, pass, pc, result, idx,
                   event, w, needUpdateSendEmail, listed, currentInvitees,
                   totalRegistrantCount, posted>>

\* after the last email: who remained in the uninvite list is uninvited
DeleteInvitee ==
    /\ pc = "invitees"
    /\ todo = << >>
    /\ DOMAIN currentInvitees # {}
    /\ LET email == Head(InOrder(DOMAIN currentInvitees)) IN
         /\ \E o \in {"ok"} \cup AnyFailure :
              /\ calls' = Append(calls, Call("meeting_invitees.delete", w, email, o = "ok",
                                             NoExtra))
              /\ nfail' = IF o = "ok" THEN nfail ELSE nfail + 1
              /\ invitees' = IF o = "ok"
                             THEN [invitees EXCEPT ![w] = Without(@, email)]
                             ELSE invitees
              /\ Logged(IF o = "ok" THEN << Entry("INFO", "Uninvited", idx) >>
                        ELSE << Entry("ERROR", "Failed to delete invitee", idx) >>)
         /\ currentInvitees' = Without(currentInvitees, email)
    /\ UNCHANGED <<constVars, rows, webinars, nextId, globalVars, pass, pc, result, idx,
                   event, w, needUpdateSendEmail, listed, todo, totalRegistrantCount,
                   posted>>

\* the row is done
EndRow ==
    /\ pc = "invitees"
    /\ todo = << >>
    /\ DOMAIN currentInvitees = {}
    /\ NextRow
    /\ UNCHANGED <<constVars, rows, remoteVars, globalVars, pass, result,
                   totalRegistrantCount, briefLog, fullLog, posted, calls, nfail>>

(***************************************************************************)
(* After the loop: the total is logged and the logs go to the bot room.    *)
(***************************************************************************)
FinishPass ==
    /\ pc = "loop"
    /\ idx > NumRows
    /\ \E o \in {"ok"} \cup AnyFailure :
         LET done == << Entry("WARNING", "Done", 0) >>
         IN  /\ calls' = Append(calls, [Call("messages.create", NoneVal, "", o = "ok", NoExtra)
                                           EXCEPT !.row = 0])
             /\ nfail' = IF o = "ok" THEN nfail ELSE nfail + 1
             /\ Logged(IF o = "ok" THEN done
                       ELSE done \o << Entry("ERROR", "Failed to post log", 0) >>)
             /\ posted' = IF o = "ok"
                           THEN [pass |-> pass,
                                 brief |-> Handle(briefLog, briefLevel, done),
                                 full |-> Handle(fullLog, fullLevel, done),
                                 total |-> totalRegistrantCount]
                           ELSE posted
    /\ pc' = "idle"
    /\ result' = "done"
    /\ UNCHANGED <<constVars, rows, remoteVars, globalVars, pass, idx, rowLocals,
                   totalRegistrantCount>>

(***************************************************************************)
(* The initial states: an environment, a list and the Webex side.          *)
(***************************************************************************)
Start10 == "2030-01-01T10:00:00Z"

Cells(create, start, duration, agenda, cohosts, panelists) ==
    [Create |-> create, StartDateandTime |-> start, Duration |-> duration,
     Title |-> "T1", SessionTitle |-> "T1", Agenda |-> agenda, Cohosts |-> cohosts,
     Panelists |-> panelists, WebinarID |-> NoneVal, AttendeeURL |-> NoneVal,
     HostKey |-> NoneVal, RegistrantCount |-> NoneVal]

\* the webinar Webex holds for a row created earlier with the base cells
BaseWebinar == [title |-> "T1", agenda |-> "A1", start |-> 10 * 60, end |-> 11 * 60,
                password |-> "pw0"]

Invitee(name, panelist, coHost) ==
    [displayName |-> name, panelist |-> panelist, coHost |-> coHost]

AnnPanelist == "a@x.com" :> Invitee("Ann", TRUE, FALSE)

\* a row of the list with, when it has a webinar id, its webinar and invitees
Profile(cells, present, webinar, inv) ==
    [cells |-> cells, present |-> present, webinar |-> webinar, inv |-> inv]

BaseCells == Cells(TrueVal, Start10, NoneVal, "A1", NoneVal, "Ann <a@x.com>")

\* rows not marked for creation
SkipProfiles ==
    { Profile([BaseCells EXCEPT !.Create = c, !.Panelists = "Bea <b@x.com>"],
              p, [BaseWebinar EXCEPT !.title = "T0"], AnnPanelist) :
        c \in {FalseVal, NoneVal}, p \in BOOLEAN }

\* rows with a property that cannot be converted
InvalidProfiles ==
    { Profile([BaseCells EXCEPT !.StartDateandTime = "not a date"], FALSE, BaseWebinar, EmptyMap),
      Profile([BaseCells EXCEPT !.StartDateandTime = NoneVal, !.Panelists = "Bea <b@x.com>"],
              TRUE, [BaseWebinar EXCEPT !.title = "T0"], AnnPanelist),
      Profile([BaseCells EXCEPT !.StartDateandTime = "2030-01-01T10:00:00"],
              FALSE, BaseWebinar, EmptyMap),
      Profile([BaseCells EXCEPT !.Duration = "an hour", !.Panelists = "Bea <b@x.com>"],
              TRUE, [BaseWebinar EXCEPT !.title = "T0"], AnnPanelist) }

\* valid rows without webinar id
AbsentProfiles ==
    { Profile([BaseCells EXCEPT !.Panelists = p, !.Cohosts = c], FALSE, BaseWebinar, EmptyMap) :
        p \in {NoneVal, "Ann <a@x.com>"},
        c \in {NoneVal, "Bea <b@x.com>", "Ann2 <A@X.com>"} }

\* valid rows without webinar id whose cohosts are several contacts, some of
\* them nicknames, and one whose agenda cell is empty
ContactProfiles ==
    { Profile([BaseCells EXCEPT !.Panelists = NoneVal, !.Cohosts = c], FALSE, BaseWebinar, EmptyMap) :
        c \in {"Jane Doe <jane@x.com>, bob@y.com", "ghost, bob", " Bob , Ann <a@x.com>",
               "bea"} }
    \cup { Profile([BaseCells EXCEPT !.Agenda = NoneVal], FALSE, BaseWebinar, EmptyMap) }

\* valid rows whose webinar differs from the row in one property, or in none
WebinarProfiles ==
    { Profile(BaseCells, TRUE, wb, AnnPanelist) :
        wb \in { BaseWebinar,
                 [BaseWebinar EXCEPT !.title = "T0"],
                 [BaseWebinar EXCEPT !.start = 9 * 60],
                 [BaseWebinar EXCEPT !.end = 12 * 60],
                 [BaseWebinar EXCEPT !.agenda = NoneVal] } }

\* valid rows whose webinar is up to date, with invitees of all kinds
InviteeProfiles ==
    { Profile([BaseCells EXCEPT !.Cohosts = c], TRUE, BaseWebinar, inv) :
        c \in {NoneVal, "Bea <b@x.com>"},
        inv \in { EmptyMap,
                  "a@x.com" :> Invitee("Old", TRUE, FALSE),
                  "a@x.com" :> Invitee("Ann", TRUE, TRUE),
                  ("a@x.com" :> Invitee("Old", TRUE, FALSE))
                      @@ ("c@x.com" :> Invitee("Cat", TRUE, TRUE)),
                  AnnPanelist @@ ("c@x.com" :> Invitee("Cat", TRUE, TRUE)),
                  AnnPanelist @@ ("b@x.com" :> Invitee("Bea", TRUE, FALSE)),
                  AnnPanelist @@ ("b@x.com" :> Invitee("Bea", TRUE, TRUE)),
                  AnnPanelist @@ ("r@x.com" :> Invitee("Rex", FALSE, FALSE)) } }

RichProfiles ==
    SkipProfiles \cup InvalidProfiles \cup AbsentProfiles \cup ContactProfiles
        \cup WebinarProfiles \cup InviteeProfiles

PlainProfiles ==
    { Profile(BaseCells, FALSE, BaseWebinar, EmptyMap),
      Profile([BaseCells EXCEPT !.Cohosts = "Bea <b@x.com>"], TRUE,
              [BaseWebinar EXCEPT !.title = "T0"],
              "a@x.com" :> Invitee("Old", TRUE, FALSE)) }

\* the lists of the model: at most one row is not a plain one
RowChoices ==
    { ps \in [1..NumRows -> RichProfiles \cup PlainProfiles] :
        Cardinality({i \in 1..NumRows : ps[i] \notin PlainProfiles}) <= 1 }

Nicknames ==
    [bob |-> [email |-> "b@x.com", name |-> "Bob"],
     bea |-> [email |-> "B@x.com", name |-> "Bea"]]

\* environments whose list has the required columns
GoodEnvs ==
    { [env |-> [columns |-> EmptyMap, nicknames |-> Nicknames, wip |-> EmptyMap],
       fields |-> FieldsOf(AllDisplayNames)],
      [env |-> [columns |-> [title |-> "Session Title"], nicknames |-> Nicknames,
                wip |-> [noCohosts |-> Scalar(TrueVal),
                         alwaysInvitePanelists |-> Scalar("Zoe <a@x.com>"),
                         agenda |-> Scalar("A0"),
                         password |-> Scalar("pw9")]],
       fields |-> FieldsOf((AllDisplayNames \cup {"Session Title"})
                               \ {"Title", "Registrant Count", "Host Key"})] }

\* an environment whose panelists are a mapping of the configuration (the list
\* has no Panelists column) with noCohosts set, and one whose nickname table
\* has the nickname "none"
ParamEnvs ==
    { [env |-> [columns |-> EmptyMap, nicknames |-> Nicknames,
                wip |-> [panelists |-> Dict("z@x.com" :> "Zed"),
                         noCohosts |-> Scalar(TrueVal)]],
       fields |-> FieldsOf(AllDisplayNames \ {"Panelists"})],
      [env |-> [columns |-> EmptyMap,
                nicknames |-> ("none" :> [email |-> "n@x.com", name |-> "Nobody"]) @@ Nicknames,
                wip |-> EmptyMap],
       fields |-> FieldsOf(AllDisplayNames)] }

\* environments whose list lacks required columns
BadEnvs ==
    { [env |-> [columns |-> EmptyMap, nicknames |-> Nicknames, wip |-> EmptyMap],
       fields |-> FieldsOf(AllDisplayNames \ {DefaultColumns[c] : c \in missing})] :
        missing \in (SUBSET requiredColumns) \ {{}} }
    \cup
    { [env |-> [columns |-> [webinarId |-> "Session ID"], nicknames |-> Nicknames,
                wip |-> EmptyMap],
       fields |-> FieldsOf(AllDisplayNames)],
      [env |-> [columns |-> [title |-> "Session Title"], nicknames |-> Nicknames,
                wip |-> EmptyMap],
       fields |-> FieldsOf(AllDisplayNames \ {"Start Date and Time"})] }

InitWith(e, ps) ==
    /\ env = e.env
    /\ listFields = e.fields
    /\ rows = [i \in 1..NumRows |->
                  [ps[i].cells EXCEPT !.WebinarID =
                      IF ps[i].present THEN WebinarId(i) ELSE NoneVal]]
    /\ webinars = [id \in {WebinarId(i) : i \in {j \in 1..NumRows : ps[j].present}} |->
                      ps[CHOOSE i \in 1..NumRows : WebinarId(i) = id].webinar]
    /\ invitees = [id \in {WebinarId(i) : i \in {j \in 1..NumRows : ps[j].present}} |->
                      ps[CHOOSE i \in 1..NumRows : WebinarId(i) = id].inv]
    /\ nextId = NumRows + 1
    /\ SHAREPOINT_PARAMS = [columns |-> DefaultColumns, nicknames |-> EmptyMap]
    /\ WEBEX_INTEGRATION_PARAMS = EmptyMap
    /\ spColumnMap = EmptyMap
    /\ pass = 0
    /\ pc = "idle"
    /\ result = "none"
    /\ idx = 1
    /\ event = NoEvent
    /\ w = NoneVal
    /\ needUpdateSendEmail = FALSE
    /\ listed = EmptyMap
    /\ currentInvitees = EmptyMap
    /\ todo = << >>
    /\ totalRegistrantCount = 0
    /\ briefLog = << >>
    /\ fullLog = << >>
    /\ posted = [pass |-> 0, brief |-> << >>, full |-> << >>, total |-> 0]
    /\ calls = << >>
    /\ nfail = 0

\* the other components at rest: no item loaded, no browser session, nothing
\* being posted, no request thread
SaveIdle == item = EmptyMap /\ original_data = EmptyMap /\ patches = << >>
AuthIdle == session = EmptyMap /\ uuids = 0 /\ tokenPosts = << >> /\ savedTokens = NoneVal
ChunkIdle ==
    /\ lines = << >> /\ lineNo = 0 /\ current_chunk = << >>
    /\ parent_id = NoneVal /\ messages = << >> /\ chunkPc = "idle"
BotIdle == threads = EmptyMap /\ handlers = {} /\ buffers = EmptyMap

Init ==
    /\ \/ \E e \in GoodEnvs, ps \in RowChoices : InitWith(e, ps)
       \/ \E e \in ParamEnvs, ps \in [1..NumRows -> PlainProfiles] : InitWith(e, ps)
       \/ \E e \in BadEnvs : InitWith(e, [i \in 1..NumRows |-> Profile(BaseCells, FALSE, BaseWebinar, EmptyMap)])
    /\ SaveIdle /\ AuthIdle /\ ChunkIdle /\ BotIdle

Next ==
    \/ StartPass
    \/ SkipRow
    \/ InvalidRow
    \/ GatherRow
    \/ CreateWebinar
    \/ WriteBackCreated
    \/ GetWebinar
    \/ UpdateWebinar
    \/ RefreshCount
    \/ ListInvitees
    \/ UpdateInvitee
    \/ KeepInvitee
    \/ CreateInvitee
    \/ DeleteInvitee
    \/ EndRow
    \/ FinishPass

Spec == Init /\ [][Next]_vars


(***************************************************************************)
(* Properties.  They read the history `calls` (one record per remote call  *)
(* and per write-back, in the order issued) and the logs.                  *)
(***************************************************************************)
WebinarOps == {"meetings.create", "meetings.get", "meetings.update"}
InviteeWriteOps ==
    {"meeting_invitees.create", "meeting_invitees.update", "meeting_invitees.delete"}
InviteeOps == InviteeWriteOps \cup {"meeting_invitees.list"}
RowOps == WebinarOps \cup InviteeOps \cup {"row.update"}

\* the calls of kind op issued for row i in pass p, and those about one email
CallsOf(p, i, op) ==
    {k \in DOMAIN calls : calls[k].pass = p /\ calls[k].row = i /\ calls[k].op = op}
CallsOn(p, i, op, e) == {k \in CallsOf(p, i, op) : calls[k].email = e}

\* pass p ran to its end (its logs were handed to the bot)
PassFinished(p) == \E k \in DOMAIN calls : calls[k].pass = p /\ calls[k].op = "messages.create"

\* pass p has gone past row i
Visited(p, i) ==
    \/ PassFinished(p)
    \/ pass = p /\ result = "running" /\ idx > i

\* C1: a row whose create cell is unset or falsy gets no remote call (no
\* webinar call, no invitee call) and no write-back: no call of the history is
\* about such a row, and its write-back cells keep their value.
C1_UnmarkedRowUntouched ==
    \A i \in 1..NumRows :
        rows[i].Create \in {NoneVal, FalseVal, ""} =>
            /\ \A k \in DOMAIN calls : calls[k].row # i
            /\ rows[i].HostKey = NoneVal
            /\ rows[i].AttendeeURL = NoneVal
            /\ rows[i].RegistrantCount = NoneVal

\* an unticked row that holds a webinar id has been passed over by a finished
\* pass that worked on the other row
C1_Witness ==
    /\ result = "done"
    /\ \E i \in 1..NumRows :
         /\ rows[i].Create = FalseVal
         /\ rows[i].WebinarID # NoneVal
         /\ \E k \in DOMAIN calls : calls[k].pass = pass /\ calls[k].op = "meetings.get"

\* a successful create in pass p for row i, and its successful write-back
CreatedIn(p, i) == \E k \in CallsOf(p, i, "meetings.create") : calls[k].ok
WrittenBack(p, i) ==
    \E k \in CallsOf(p, i, "row.update") :
        calls[k].ok /\ k > 1 /\ calls[k - 1].op = "meetings.create"

AllOk(p) == \A k \in DOMAIN calls : calls[k].pass = p => calls[k].ok

InviteeWrites(p) ==
    {k \in DOMAIN calls : calls[k].pass = p /\ calls[k].op \in InviteeWriteOps}

C4_UpdateNotification ==
    [][ /\ (pc = "update" /\ Len(calls') = Len(calls) + 1) =>
            /\ calls'[Len(calls')].op = "meetings.update"
            /\ calls'[Len(calls')].sendEmail =
                   (\/ event.title # webinars[w].title
                    \/ event.start # webinars[w].start
                    \/ event.end # webinars[w].end)
        /\ (/\ pc = "get" /\ pc' # "get" /\ calls'[Len(calls')].ok
            /\ event.title = webinars[event.id].title
            /\ event.start = webinars[event.id].start
            /\ event.end = webinars[event.id].end
            /\ event.agenda # webinars[event.id].agenda) => pc' = "update"
      ]_vars

\* an update issued without notification, for an agenda that alone differed
C4_Witness ==
    \E k \in DOMAIN calls :
        /\ calls[k].op = "meetings.update" /\ calls[k].ok /\ ~calls[k].sendEmail
        /\ webinars[calls[k].wid].agenda = "A1"

\* the invitee reconciliation of the current row has issued all its calls
RowReconciled == pc = "invitees" /\ todo = << >> /\ DOMAIN currentInvitees = {}

\* the invitees Webex listed for the current row that are panelist or co-host
ListedFlagged == {e \in DOMAIN listed : listed[e].panelist \/ listed[e].coHost}

\* the desired emails of the current row, with the name and the co-host status
\* wanted for each (a co-host entry wins over a panelist entry)
DesiredEmails == (DOMAIN event.panelists) \cup (DOMAIN event.cohosts)
DesiredName(e) == IF e \in DOMAIN event.cohosts THEN event.cohosts[e] ELSE event.panelists[e]
DesiredCoHost(e) == e \in DOMAIN event.cohosts

\* C5: a desired email that is already a remote panelist or co-host gets
\* exactly one update call (carrying the desired name and co-host flag) when
\* the remote display name or co-host flag differs from the desired one and no
\* call at all when both match; in neither case a create or a delete.
C5_UpdateOnlyOnDifference ==
    RowReconciled =>
        \A e \in DesiredEmails \cap ListedFlagged :
            LET differs == \/ listed[e].displayName # DesiredName(e)
                           \/ listed[e].coHost # DesiredCoHost(e)
                updates == CallsOn(pass, idx, "meeting_invitees.update", e)
            IN  /\ Cardinality(updates) = (IF differs THEN 1 ELSE 0)
                /\ \A k \in updates : /\ calls[k].name = DesiredName(e)
                                      /\ calls[k].coHost = DesiredCoHost(e)
                /\ CallsOn(pass, idx, "meeting_invitees.create", e) = {}
                /\ CallsOn(pass, idx, "meeting_invitees.delete", e) = {}

\* a row reconciled with one remote panelist updated for its co-host flag
\* alone and another left alone
C5_Witness ==
    /\ RowReconciled
    /\ \E e \in DesiredEmails \cap ListedFlagged :
         /\ listed[e].displayName = DesiredName(e)
         /\ listed[e].coHost # DesiredCoHost(e)
         /\ CallsOn(pass, idx, "meeting_invitees.update", e) # {}
    /\ \E p \in 1..pass, i \in 1..NumRows, k \in DOMAIN calls :
         /\ calls[k].pass = p /\ calls[k].row = i
         /\ calls[k].op = "meeting_invitees.list" /\ calls[k].ok
         /\ CallsOf(p, i, "meeting_invitees.update") = {}
         /\ <<p, i>> # <<pass, idx>>

\* C6: a remote invitee flagged panelist or co-host whose email is not desired
\* gets exactly one delete call, and deletes are issued only once every
\* desired email has been processed: none while desired emails remain, none
\* before a create or an update of the same row.
C6_DeleteAfterDesired ==
    /\ RowReconciled =>
         \A e \in ListedFlagged \ DesiredEmails :
             Cardinality(CallsOn(pass, idx, "meeting_invitees.delete", e)) = 1
    /\ (pc = "invitees" /\ todo # << >>) => CallsOf(pass, idx, "meeting_invitees.delete") = {}
    /\ \A k, j \in DOMAIN calls :
         (/\ calls[k].op = "meeting_invitees.delete"
          /\ calls[j].pass = calls[k].pass /\ calls[j].row = calls[k].row
          /\ calls[j].op \in {"meeting_invitees.create", "meeting_invitees.update"}) => j < k

\* a remote co-host that is not desired has been deleted after the desired
\* emails were processed
C6_Witness ==
    /\ RowReconciled
    /\ DesiredEmails # {}
    /\ \E e \in ListedFlagged \ DesiredEmails :
         /\ listed[e].coHost
         /\ \E k \in CallsOn(pass, idx, "meeting_invitees.delete", e) : calls[k].ok

\* the required logical names whose display name (the override or else the
\* built-in one) is not a column of the list
MissingRequired ==
    {c \in {"create", "startdatetime", "title", "webinarId"} :
        (IF c \in DOMAIN env.columns THEN env.columns[c] ELSE DefaultColumns[c])
            \notin DOMAIN listFields}

\* the initialisation failed before the column mapping was attempted
FailedBeforeMapping ==
    /\ result = "aborted"
    /\ fullLog[Len(fullLog)].msg \in {"env", "paramstore", "sharepoint"}

\* C7: the column mapping fails, naming the missing logical names, whenever
\* one of create, startdatetime, title, webinarId has no matching column;
\* otherwise the map holds all four.
C7_RequiredColumns ==
    (pass >= 1 /\ ~FailedBeforeMapping) =>
        IF MissingRequired # {}
        THEN /\ result = "aborted"
             /\ fullLog[Len(fullLog)].lvl = "FATAL"
             /\ fullLog[Len(fullLog)].msg = "columns"
             /\ fullLog[Len(fullLog)].names = MissingRequired
        ELSE {"create", "startdatetime", "title", "webinarId"} \subseteq DOMAIN spColumnMap

\* a pass stopped by a column mapping that misses two required columns
C7_Witness ==
    /\ pass >= 1
    /\ ~FailedBeforeMapping
    /\ MissingRequired = {"title", "webinarId"}
    /\ result = "aborted"

\* C8: a failure of any initialisation step (a missing credential, the
\* parameter store, SharePoint, a missing required column, Webex, the bot)
\* aborts the pass before any row is read: the pass issues no webinar call, no
\* invitee call and no write-back.
C8_InitFailureAborts ==
    /\ \A k \in DOMAIN calls :
         (calls[k].op = "init" /\ ~calls[k].ok) =>
             /\ \A j \in DOMAIN calls : calls[j].pass = calls[k].pass => calls[j].op \notin RowOps
             /\ calls[k].pass = pass => (pc = "idle" /\ result = "aborted" /\ idx = 1)
    /\ MissingRequired # {} =>
         /\ \A j \in DOMAIN calls : calls[j].op \notin RowOps
         /\ pc = "idle"
         /\ pass >= 1 => result = "aborted"

\* a second pass stopped by a failed Webex initialisation, after a first pass
\* that worked on the rows
C8_Witness ==
    /\ pass = 2 /\ result = "aborted"
    /\ \E k \in DOMAIN calls :
         calls[k].pass = 2 /\ calls[k].op = "init" /\ calls[k].email = "webex"
    /\ \E k \in DOMAIN calls : calls[k].pass = 1 /\ calls[k].op \in RowOps

\* the cells of the row cannot be converted: the start is no ISO-8601 date
\* with an offset, or the duration is no number
InvalidCells(r) ==
    \/ r.StartDateandTime \notin {"2030-01-01T10:00:00Z", "2030-01-01T11:00:00Z"}
    \/ r.Duration \notin {NoneVal, "", "60", "90", "90.0", "30"}

\* C9: a marked row with a property that cannot be converted is skipped with
\* a logged error; no remote call and no write-back is made for it, the pass
\* goes on with the next row and is not aborted.
C9_InvalidRowSkipped ==
    [][ (/\ pc = "loop" /\ idx <= NumRows
         /\ rows[idx].Create = TrueVal
         /\ InvalidCells(rows[idx])) =>
            /\ pc' = "loop" /\ idx' = idx + 1 /\ result' = result
            /\ calls' = calls /\ rows' = rows
            /\ webinars' = webinars /\ invitees' = invitees
            /\ Len(briefLog') = Len(briefLog) + 1
            /\ briefLog'[Len(briefLog')].lvl = "ERROR"
            /\ briefLog'[Len(briefLog')].row = idx
      ]_vars

\* a finished pass that logged the error for the first row and went on to
\* call Webex for the second
C9_Witness ==
    /\ result = "done"
    /\ InvalidCells(rows[1]) /\ rows[1].Create = TrueVal
    /\ \E k \in DOMAIN briefLog : briefLog[k].lvl = "ERROR" /\ briefLog[k].row = 1
    /\ \A k \in DOMAIN calls : calls[k].row # 1
    /\ \E k \in DOMAIN calls : calls[k].pass = pass /\ calls[k].row = 2

\* C10: when the create call for a row without webinar id fails, the failure
\* is logged, the webinar id cell stays empty, no invitee call is made for the
\* row in this pass, and the pass goes on with the next row.
C10_CreateFailureSkipsRow ==
    [][ (/\ pc = "create"
         /\ Len(calls') = Len(calls) + 1
         /\ ~calls'[Len(calls')].ok) =>
            /\ pc' = "loop" /\ idx' = idx + 1 /\ result' = result
            /\ rows' = rows
            /\ Len(briefLog') = Len(briefLog) + 1
            /\ briefLog'[Len(briefLog')].lvl = "ERROR"
      ]_vars

\* C11: when the get or the update of the webinar of a row with webinar id
\* fails, for whatever reason, the failure is logged, no invitee call is made
\* for the row in this pass, and the pass goes on with the next row.
C11_WebinarFailureSkipsRow ==
    [][ (/\ pc \in {"get", "update"}
         /\ Len(calls') = Len(calls) + 1
         /\ ~calls'[Len(calls')].ok) =>
            /\ pc' = "loop" /\ idx' = idx + 1 /\ result' = result
            /\ Len(briefLog') = Len(briefLog) + 1
            /\ briefLog'[Len(briefLog')].lvl = "ERROR"
      ]_vars

\* the invitee calls of the current row in this pass, and the failed ones
RowInviteeWrites ==
    {k \in DOMAIN calls : /\ calls[k].pass = pass /\ calls[k].row = idx
                          /\ calls[k].op \in InviteeWriteOps}
RowInviteeFailures == {k \in RowInviteeWrites : ~calls[k].ok}

\* C12: a failed invitee create, update or delete is logged and the row's
\* reconciliation goes on: the failing step leaves the pass in the row's
\* invitee loop with only the failed email taken off the work left, and once
\* the row is reconciled every other desired email and every other uninvite
\* candidate has had its call; the pass then moves to the next row.
C12_InviteeFailureIsolated ==
    [][ /\ (/\ pc = "invitees"
            /\ Len(calls') = Len(calls) + 1
            /\ ~calls'[Len(calls')].ok) =>
               LET c == calls'[Len(calls')] IN
               /\ c.op \in InviteeWriteOps
               /\ pc' = "invitees" /\ idx' = idx /\ result' = result
               /\ event' = event /\ w' = w
               /\ Len(briefLog') = Len(briefLog) + 1
               /\ briefLog'[Len(briefLog')].lvl = "ERROR"
               /\ briefLog'[Len(briefLog')].row = idx
               /\ DOMAIN currentInvitees' = (DOMAIN currentInvitees) \ {c.email}
               /\ todo' = IF c.op = "meeting_invitees.delete" THEN todo ELSE Tail(todo)
        /\ (RowReconciled /\ RowInviteeFailures # {}) =>
               /\ \A e \in DesiredEmails \ ListedFlagged :
                      Cardinality(CallsOn(pass, idx, "meeting_invitees.create", e)) = 1
               /\ \A e \in ListedFlagged \ DesiredEmails :
                      Cardinality(CallsOn(pass, idx, "meeting_invitees.delete", e)) = 1
               /\ \A e \in DesiredEmails \cap ListedFlagged :
                      (\/ listed[e].displayName # DesiredName(e)
                       \/ listed[e].coHost # DesiredCoHost(e)) =>
                          Cardinality(CallsOn(pass, idx, "meeting_invitees.update", e)) = 1
               /\ pc' = "loop" /\ idx' = idx + 1 /\ result' = result
      ]_vars

\* in the first row an invitee call failed and a later invitee call of the
\* same row succeeded; the pass is at work on the second row
C12_Witness ==
    /\ idx = 2 /\ pc = "invitees" /\ result = "running"
    /\ \E k, j \in DOMAIN calls :
         /\ calls[k].pass = pass /\ calls[k].row = 1
         /\ calls[k].op \in InviteeWriteOps /\ ~calls[k].ok
         /\ calls[j].pass = pass /\ calls[j].row = 1
         /\ calls[j].op \in InviteeWriteOps /\ calls[j].ok
         /\ k < j

\* the webinars created for row i that Webex holds
CreatedFor(i) ==
    {calls[k].wid : k \in {j \in DOMAIN calls : /\ calls[j].op = "meetings.create"
                                                /\ calls[j].ok /\ calls[j].row = i}}
        \cap DOMAIN webinars

\* C13: when the write-back of a new webinar's id fails, the divergence heals
\* in the next failure-free pass: after it the row holds the id of a webinar
\* created for it and no other webinar created for the row is left on Webex.
C13_WriteBackSelfHeals ==
    \A p \in 1..(MaxPasses - 1), i \in 1..NumRows :
        (/\ CreatedIn(p, i) /\ ~WrittenBack(p, i)
         /\ PassFinished(p + 1) /\ AllOk(p + 1)) =>
            /\ rows[i].WebinarID \in CreatedFor(i)
            /\ CreatedFor(i) \subseteq {rows[i].WebinarID}

\* the invitee create, update and delete calls about email e for row i in pass p
InviteeWritesOn(p, i, e) ==
    {k \in DOMAIN calls : /\ calls[k].pass = p /\ calls[k].row = i
                          /\ calls[k].op \in InviteeWriteOps /\ calls[k].email = e}

\* C14: nothing is retried within a pass: in one pass a row gets at most one
\* webinar create or update call (and at most one get), and an invitee email
\* of a row at most one create, update or delete call, failed or not; a call
\* that failed is made again in a later pass only.
C14_NoRetryWithinPass ==
    \A p \in 1..MaxPasses, i \in 1..NumRows :
        /\ Cardinality(CallsOf(p, i, "meetings.create")
                           \cup CallsOf(p, i, "meetings.update")) <= 1
        /\ Cardinality(CallsOf(p, i, "meetings.get")) <= 1
        /\ \A k \in DOMAIN calls :
               (calls[k].pass = p /\ calls[k].row = i /\ calls[k].op \in InviteeWriteOps) =>
                   Cardinality(InviteeWritesOn(p, i, calls[k].email)) = 1

\* an invitee create that failed in the first pass is made again in the second
C14_Witness ==
    \E i \in 1..NumRows, k, j \in DOMAIN calls :
        /\ calls[k].pass = 1 /\ calls[k].row = i /\ ~calls[k].ok
        /\ calls[k].op = "meeting_invitees.create"
        /\ calls[j].pass = 2 /\ calls[j].row = i /\ calls[j].ok
        /\ calls[j].op = "meeting_invitees.create" /\ calls[j].email = calls[k].email

\* two calls made for the same row in the same pass
SameRow(k, j) ==
    calls[k].pass = calls[j].pass /\ calls[k].row = calls[j].row /\ calls[k].row >= 1

\* C15 as stated: no write-back to a row happens before an invitee create,
\* update or delete call of that row, and the rows are worked on one after
\* the other.
C15_AsStated ==
    \A k, j \in DOMAIN calls :
        /\ (/\ SameRow(k, j)
            /\ calls[k].op = "row.update"
            /\ calls[j].op \in InviteeWriteOps) => j < k
        /\ (/\ k < j /\ calls[k].pass = calls[j].pass
            /\ calls[k].row >= 1 /\ calls[j].row >= 1) => calls[k].row <= calls[j].row

\* C15: for every processed row the calls come in the order webinar create or
\* get/update, write-back to the row, invitee reconciliation: a webinar call
\* precedes every other call of the row, every write-back precedes the row's
\* invitee create, update and delete calls, a created webinar is written back
\* before the first of them, and no call of a later row comes before a call of
\* an earlier row of the same pass.
C15_RowStepOrder ==
    \A k, j \in DOMAIN calls :
        /\ (/\ SameRow(k, j)
            /\ calls[k].op \in WebinarOps
            /\ calls[j].op \notin WebinarOps) => k < j
        /\ (/\ SameRow(k, j)
            /\ calls[k].op = "row.update"
            /\ calls[j].op \in InviteeWriteOps) => k < j
        /\ (/\ SameRow(k, j)
            /\ calls[k].op = "meetings.create" /\ calls[k].ok
            /\ calls[j].op \in InviteeWriteOps) =>
               \E m \in DOMAIN calls : k < m /\ m < j /\ calls[m].op = "row.update"
        /\ (/\ k < j /\ calls[k].pass = calls[j].pass
            /\ calls[k].row >= 1 /\ calls[j].row >= 1) => calls[k].row <= calls[j].row

\* the first row was created, written back and given an invitee, and the
\* pass has gone on to call Webex for the second row
C15_Witness ==
    \E k, j, n \in DOMAIN calls :
        /\ calls[k].pass = 1 /\ calls[k].row = 1 /\ calls[k].op = "row.update" /\ calls[k].ok
        /\ calls[j].pass = 1 /\ calls[j].row = 1 /\ calls[j].op = "meeting_invitees.create"
        /\ calls[n].pass = 1 /\ calls[n].row = 2
        /\ k < j /\ j < n
        /\ k > 1 /\ calls[k - 1].op = "meetings.create"

\* the properties of the current row have just been gathered
JustGathered == pc \in {"create", "get"}

\* the value of a property of the current row by the stated order: the cell
\* of the mapped column unless it is empty, else the parameter, else None
ResolvedByOrder(name) ==
    IF name \in DOMAIN spColumnMap /\ rows[idx][spColumnMap[name]] \notin {NoneVal, ""}
    THEN rows[idx][spColumnMap[name]]
    ELSE IF name \in DOMAIN WEBEX_INTEGRATION_PARAMS
         THEN WEBEX_INTEGRATION_PARAMS[name].val
         ELSE NoneVal

\* C16: every property of a row resolves to the cell of the mapped column when
\* that cell is not empty, otherwise (no column, or an empty cell) to the
\* parameter of the same name when there is one, otherwise to None.
C16_ResolutionOrder ==
    JustGathered =>
        /\ event.agenda = ResolvedByOrder("agenda")
        /\ event.password = ResolvedByOrder("password")
        /\ event.id = ResolvedByOrder("webinarId")
        /\ event.title = (IF ResolvedByOrder("title") \in {NoneVal, ""}
                          THEN "Generic Webinar Title" ELSE ResolvedByOrder("title"))

\* the entries with an address of the contact texts of the model: lowercased
\* address -> name as written, "Panelist" when no name is written
AddressEntries(contacts) ==
    CASE contacts = "Jane Doe <jane@x.com>, bob@y.com" ->
             ("jane@x.com" :> "Jane Doe") @@ ("bob@y.com" :> "Panelist")
      [] contacts = "Ann <a@x.com>" -> "a@x.com" :> "Ann"
      [] contacts = "Ann2 <A@X.com>" -> "a@x.com" :> "Ann2"
      [] contacts = "Bea <b@x.com>" -> "b@x.com" :> "Bea"
      [] contacts = " Bob , Ann <a@x.com>" -> "a@x.com" :> "Ann"
      [] contacts = "Zoe <a@x.com>" -> "a@x.com" :> "Zoe"
      [] OTHER -> [e \in {} |-> ""]

\* C17: every entry of a contacts text whose address contains "@" maps the
\* lowercased, trimmed address to the trimmed name, or to "Panelist" when
\* there is no name, and no other key stands for such an entry; so
\* "Jane Doe <jane@x.com>, bob@y.com" gives jane@x.com: Jane Doe and
\* bob@y.com: Panelist.
C17_AddressEntries ==
    JustGathered =>
        LET expected == AddressEntries(rows[idx].Cohosts) IN
        /\ \A e \in DOMAIN expected :
               e \in DOMAIN event.cohosts /\ event.cohosts[e] = expected[e]
        /\ \A e \in DOMAIN event.cohosts : e \notin {"A@X.com", "Jane@x.com", " a@x.com"}
        /\ rows[idx].Cohosts = "Jane Doe <jane@x.com>, bob@y.com" =>
               event.cohosts = ("jane@x.com" :> "Jane Doe") @@ ("bob@y.com" :> "Panelist")

\* the two contacts of the example have been resolved for a row
C17_Witness ==
    /\ JustGathered
    /\ rows[idx].Cohosts = "Jane Doe <jane@x.com>, bob@y.com"
    /\ event.cohosts["bob@y.com"] = "Panelist"

\* C18: an entry without "@" is looked up, lowercased and trimmed, in the
\* nickname table; a hit adds the table's email and name, a miss adds
\* nothing and raises no error (the row is gathered), and the other entries of
\* the text are resolved all the same.
C18_NicknameEntries ==
    [][ (/\ pc = "loop" /\ idx <= NumRows
         /\ rows[idx].Create = TrueVal
         /\ ~InvalidCells(rows[idx])
         /\ rows[idx].Cohosts \in {"ghost, bob", " Bob , Ann <a@x.com>"}) =>
            /\ pc' \in {"create", "get"}
            /\ SHAREPOINT_PARAMS.nicknames["bob"] = [email |-> "b@x.com", name |-> "Bob"]
            /\ "ghost" \notin DOMAIN SHAREPOINT_PARAMS.nicknames
            /\ event'.cohosts =
                   IF rows[idx].Cohosts = "ghost, bob"
                   THEN "b@x.com" :> "Bob"
                   ELSE ("b@x.com" :> "Bob") @@ ("a@x.com" :> "Ann")
      ]_vars

\* a row whose cohosts are an unknown and a known nickname has been gathered
C18_Witness ==
    /\ JustGathered
    /\ rows[idx].Cohosts = "ghost, bob"
    /\ event.cohosts = "b@x.com" :> "Bob"

\* the always-invite set of the configuration
AlwaysInvited ==
    IF "alwaysInvitePanelists" \in DOMAIN WEBEX_INTEGRATION_PARAMS
    THEN AddressEntries(WEBEX_INTEGRATION_PARAMS["alwaysInvitePanelists"].val)
    ELSE [e \in {} |-> ""]

\* C19: the panelists gathered for a row contain every entry of the
\* always-invite set, under the always-invite display name also when the row
\* names a panelist with the same email.
C19_AlwaysInvitedWins ==
    JustGathered =>
        \A e \in DOMAIN AlwaysInvited :
            e \in DOMAIN event.panelists /\ event.panelists[e] = AlwaysInvited[e]

\* a row that names Ann <a@x.com> was gathered under an always-invite set
\* with Zoe <a@x.com>
C19_Witness ==
    /\ JustGathered
    /\ rows[idx].Panelists = "Ann <a@x.com>"
    /\ "a@x.com" \in DOMAIN AlwaysInvited
    /\ event.panelists["a@x.com"] = "Zoe"

\* every call and write-back made for the current row in this pass succeeded
RowAllOk == \A k \in DOMAIN calls : (calls[k].pass = pass /\ calls[k].row = idx) => calls[k].ok

\* the invitees of the current row's webinar that Webex flags panelist or co-host
RemoteFlagged == {e \in DOMAIN invitees[w] : invitees[w][e].panelist \/ invitees[w][e].coHost}

\* C20: once a row is reconciled with every call succeeding, the invitees
\* Webex flags panelist or co-host on the row's webinar are exactly the desired
\* emails (panelists, cohosts, always-invited), each under the desired display
\* name, each a panelist, and co-host exactly when desired as co-host.
C20_RemoteMatchesDesired ==
    (RowReconciled /\ RowAllOk) =>
        /\ RemoteFlagged = DesiredEmails
        /\ DOMAIN AlwaysInvited \subseteq RemoteFlagged
        /\ \A e \in RemoteFlagged :
               /\ invitees[w][e].displayName = DesiredName(e)
               /\ invitees[w][e].panelist
               /\ invitees[w][e].coHost = DesiredCoHost(e)

\* a row reconciled without failure by a create, an update and a delete, with
\* a co-host among the desired
C20_Witness ==
    /\ RowReconciled /\ RowAllOk
    /\ \E e \in RemoteFlagged : invitees[w][e].coHost
    /\ \E k \in RowInviteeWrites : calls[k].op = "meeting_invitees.create"
    /\ \E k \in DOMAIN calls : calls[k].op = "meeting_invitees.delete" /\ calls[k].ok
    /\ \E k \in DOMAIN calls : calls[k].op = "meeting_invitees.update" /\ calls[k].ok

\* C21: no delete call is issued for an email of the row's desired set: a
\* desired email that Webex listed leaves the uninvite list when its turn
\* comes, whether it needed no update, was updated, or its update failed.
C21_DesiredNeverDeleted ==
    pc = "invitees" =>
        /\ \A k \in CallsOf(pass, idx, "meeting_invitees.delete") :
               calls[k].email \notin DesiredEmails
        /\ \A e \in DesiredEmails :
               (\A j \in 1..Len(todo) : todo[j] # e) => e \notin DOMAIN currentInvitees

\* the update of a desired email failed, the row went on to uninvite another
\* invitee, and no delete was issued for the desired one
C21_Witness ==
    /\ RowReconciled
    /\ \E k \in CallsOf(pass, idx, "meeting_invitees.update") :
           /\ ~calls[k].ok
           /\ calls[k].email \in DesiredEmails
           /\ CallsOn(pass, idx, "meeting_invitees.delete", calls[k].email) = {}
    /\ CallsOf(pass, idx, "meeting_invitees.delete") # {}

\* the row's intent differs from a webinar in title, start, end or agenda
IntentDiffers(ev, webinar) ==
    \/ ev.title # webinar.title
    \/ ev.start # webinar.start
    \/ ev.end # webinar.end
    \/ ev.agenda # webinar.agenda

\* C22: for a row with a webinar id whose webinar was fetched, a webinar
\* update call is issued exactly when the title, the start, the end or the
\* agenda of the row's intent differs from the fetched webinar; when the four
\* are equal the row goes on without an update call, and no update call is
\* issued anywhere else.
C22_UpdateIffDifferent ==
    [][ /\ (pc = "get" /\ Len(calls') = Len(calls) + 1 /\ calls'[Len(calls')].ok) =>
            /\ pc' \in {"update", "count"}
            /\ (pc' = "update") <=> IntentDiffers(event, webinars[event.id])
        /\ pc = "update" =>
            /\ Len(calls') = Len(calls) + 1
            /\ calls'[Len(calls')].op = "meetings.update"
            /\ calls'[Len(calls')].wid = event.id
            /\ pc' # "update"
        /\ \A k \in (Len(calls) + 1)..Len(calls') :
               calls'[k].op = "meetings.update" => pc = "update"
      ]_vars

\* a fetched webinar equal to the row's intent in the four properties: the
\* row is at its registrant count and no update call was issued for it
C22_Witness ==
    /\ pc = "count"
    /\ \E k \in CallsOf(pass, idx, "meetings.get") : calls[k].ok
    /\ ~IntentDiffers(event, webinars[w])
    /\ CallsOf(pass, idx, "meetings.update") = {}

\* the invitee create and update calls issued so far for the current row
RowInviteeUpserts ==
    CallsOf(pass, idx, "meeting_invitees.create")
        \cup CallsOf(pass, idx, "meeting_invitees.update")

\* C23: an email that is in the row's desired panelists and in its desired
\* cohosts is created or updated with coHost true and the display name of
\* the cohost entry; an email that is in the panelists only is created or
\* updated with coHost false.
C23_CohostWins ==
    pc = "invitees" =>
        \A k \in RowInviteeUpserts :
            LET e == calls[k].email IN
            /\ e \in DesiredEmails
            /\ (e \in DOMAIN event.panelists /\ e \in DOMAIN event.cohosts) =>
                   calls[k].coHost /\ calls[k].name = event.cohosts[e]
            /\ (e \in DOMAIN event.panelists /\ e \notin DOMAIN event.cohosts) =>
                   ~calls[k].coHost /\ calls[k].name = event.panelists[e]

\* a@x.com is panelist "Ann" and cohost "Ann2" of the row: the invitee was
\* created as co-host "Ann2"
C23_Witness ==
    /\ pc = "invitees"
    /\ "a@x.com" \in DOMAIN event.panelists /\ event.panelists["a@x.com"] = "Ann"
    /\ "a@x.com" \in DOMAIN event.cohosts /\ event.cohosts["a@x.com"] = "Ann2"
    /\ \E k \in CallsOn(pass, idx, "meeting_invitees.create", "a@x.com") :
           calls[k].ok /\ calls[k].coHost /\ calls[k].name = "Ann2"

\* C24: with noCohosts set, every invitee create and update call of the pass
\* carries coHost false, the desired cohosts are reconciled as panelists, and
\* a desired email that Webex lists as co-host gets an update call that
\* clears the flag.
C24_NoCohosts ==
    noCohosts =>
        /\ \A k \in DOMAIN calls :
               (/\ calls[k].pass = pass
                /\ calls[k].op \in {"meeting_invitees.create", "meeting_invitees.update"}) =>
                   ~calls[k].coHost
        /\ pc = "invitees" =>
               /\ event.cohosts = EmptyMap
               /\ \A e \in DOMAIN AddressEntries(rows[idx].Cohosts) :
                      e \in DOMAIN event.panelists
        /\ RowReconciled =>
               \A e \in DesiredEmails :
                   (e \in DOMAIN listed /\ listed[e].coHost) =>
                       \E k \in CallsOn(pass, idx, "meeting_invitees.update", e) :
                           ~calls[k].coHost

\* under noCohosts the row's cohost b@x.com, a remote co-host, has been
\* updated to an ordinary panelist
C24_Witness ==
    /\ RowReconciled
    /\ noCohosts
    /\ rows[idx].Cohosts = "Bea <b@x.com>"
    /\ "b@x.com" \in DOMAIN listed /\ listed["b@x.com"].coHost
    /\ \E k \in CallsOn(pass, idx, "meeting_invitees.update", "b@x.com") :
           calls[k].ok /\ ~calls[k].coHost
    /\ invitees[w]["b@x.com"] = [displayName |-> "Bea", panelist |-> TRUE, coHost |-> FALSE]

\* C25, as stated: the total starts at 0 in every pass and every row with a
\* webinar id whose webinar get and update did not fail adds the number of
\* its remote invitees to it.
C25_AsStated ==
    [][ /\ pass' # pass => totalRegistrantCount' = 0
        /\ pc = "count" =>
               totalRegistrantCount' =
                   totalRegistrantCount + Cardinality(DOMAIN invitees[w])
        /\ (pass' = pass /\ pc # "count") => totalRegistrantCount' = totalRegistrantCount
        /\ posted' # posted => posted'.total = totalRegistrantCount
      ]_vars

\* C25, amended: the total reported at the end of a pass starts at 0 in that
\* pass and is the sum of the remote invitee counts of exactly the rows with
\* a webinar id whose webinar get and update did not fail and whose invitees
\* could be listed for the count, whether or not the count was then written
\* to the row; a row whose listing failed, and every other step, adds nothing.
C25_TotalOfCountedRows ==
    [][ /\ pass' # pass => totalRegistrantCount' = 0
        /\ pc = "count" =>
               LET listing == CHOOSE k \in (Len(calls) + 1)..Len(calls') :
                                  calls'[k].op = "meeting_invitees.list"
               IN  totalRegistrantCount' =
                       totalRegistrantCount +
                           (IF calls'[listing].ok THEN Cardinality(DOMAIN invitees[w]) ELSE 0)
        /\ (pass' = pass /\ pc # "count") => totalRegistrantCount' = totalRegistrantCount
        /\ posted' # posted => posted'.total = totalRegistrantCount
      ]_vars

\* a second pass ended and reported the count of its two rows, one of which
\* could not write its count back; the total of the first pass is not in it
C25_Witness ==
    /\ posted.pass = 2
    /\ posted.total = 2
    /\ \E k \in DOMAIN calls :
           /\ calls[k].pass = 2 /\ calls[k].op = "row.update" /\ ~calls[k].ok
    /\ \A i \in 1..NumRows :
           /\ \E k \in CallsOf(2, i, "meetings.get") : calls[k].ok
           /\ \A k \in CallsOf(2, i, "meeting_invitees.list") : calls[k].ok

\* the count step of the current row left an error in both logs
CountErrorLogged ==
    /\ briefLog' = Append(briefLog,
                          Entry("ERROR", "Failed to refresh webinar Registration Count", idx))
    /\ fullLog' = Append(fullLog,
                         Entry("ERROR", "Failed to refresh webinar Registration Count", idx))

\* C26: for a row with a webinar id, an unmapped registrant-count column and
\* a failure while counting the invitees or saving the count are logged and
\* nothing more: the pass stays in the row, the webinar is left as it is, and
\* the next step is the listing of the row's invitees for their
\* reconciliation, after which the later rows follow as usual.
C26_CountFailureOnlyLogged ==
    [][ /\ pc = "count" =>
            LET new == {k \in (Len(calls) + 1)..Len(calls') : ~calls'[k].ok} IN
            /\ pc' = "list"
            /\ idx' = idx /\ pass' = pass /\ result' = result
            /\ w' = w /\ event' = event
            /\ webinars' = webinars /\ invitees' = invitees
            /\ (new # {} \/ "registrantCount" \notin DOMAIN spColumnMap) => CountErrorLogged
            /\ "registrantCount" \notin DOMAIN spColumnMap => rows' = rows
        /\ pc = "list" =>
            /\ Len(calls') = Len(calls) + 1
            /\ calls'[Len(calls')].op = "meeting_invitees.list"
            /\ calls'[Len(calls')].wid = w
            /\ calls'[Len(calls')].row = idx
            /\ calls'[Len(calls')].ok => pc' = "invitees"
      ]_vars

\* the count of the first row failed, its invitees were listed and created
\* all the same, and the pass is at work on the second row
C26_Witness ==
    /\ idx = 2
    /\ pc \in {"count", "list", "invitees"}
    /\ \E k1, k2 \in CallsOf(pass, 1, "meeting_invitees.list") :
           k1 < k2 /\ ~calls[k1].ok /\ calls[k2].ok
    /\ \E k \in CallsOf(pass, 1, "meeting_invitees.create") : calls[k].ok
    /\ \E e \in 1..Len(briefLog) :
           briefLog[e] = Entry("ERROR", "Failed to refresh webinar Registration Count", 1)

\* a password that Python takes for empty
EmptyPassword(p) == p \in {NoneVal, ""}

\* C27: every webinar update call carries the password of the row's intent
\* when that is not empty, and otherwise the password of the webinar fetched
\* for the row; so it carries no empty password when the remote webinar has
\* one.
C27_UpdatePassword ==
    [][ pc = "update" =>
            LET sent == calls'[Len(calls')] IN
            /\ sent.op = "meetings.update"
            /\ sent.password = IF ~EmptyPassword(event.password) THEN event.password
                               ELSE webinars[w].password
            /\ ~EmptyPassword(webinars[w].password) => ~EmptyPassword(sent.password)
      ]_vars

\* an update sent for a row whose intent has no password: it carried the
\* password the webinar had, and the webinar keeps it
C27_Witness ==
    /\ pc = "count"
    /\ EmptyPassword(event.password)
    /\ \E k \in CallsOf(pass, idx, "meetings.update") :
           calls[k].ok /\ calls[k].password = "pw0"
    /\ webinars[w].password = "pw0"

\* the display name a logical column name stands for: the operator's
\* override, or else the built-in one
DisplayNameOf(c) == IF c \in DOMAIN env.columns THEN env.columns[c] ELSE DefaultColumns[c]

\* the logical names of the built-in table and of the overrides
LogicalNames == (DOMAIN DefaultColumns) \cup (DOMAIN env.columns)

\* C28: the column map built at the start of a pass has exactly the logical
\* names, built-in or overridden, whose display name (the override replacing
\* the built-in entry of the same key) is a column of the list, each mapped
\* to the internal name of that column; an optional logical name without a
\* matching column is left out and causes no error.
C28_ColumnMap ==
    (pass >= 1 /\ ~FailedBeforeMapping) =>
        /\ DOMAIN spColumnMap = {c \in LogicalNames : DisplayNameOf(c) \in DOMAIN listFields}
        /\ \A c \in DOMAIN spColumnMap : spColumnMap[c] = listFields[DisplayNameOf(c)]
        /\ SHAREPOINT_PARAMS.columns = [c \in LogicalNames |-> DisplayNameOf(c)]
        /\ MissingRequired = {} =>
               \A e \in 1..Len(fullLog) : fullLog[e].msg # "columns"

\* a pass at work with the title column overridden and two optional columns
\* that the list does not have
C28_Witness ==
    /\ result = "running"
    /\ env.columns = [title |-> "Session Title"]
    /\ spColumnMap["title"] = "SessionTitle"
    /\ "Title" \notin DOMAIN listFields
    /\ {"hostKey", "registrantCount"} \cap DOMAIN spColumnMap = {}
    /\ "agenda" \in DOMAIN spColumnMap

\* the emails of the model that are written in lowercase
LowercaseEmails ==
    {"a@x.com", "b@x.com", "c@x.com", "r@x.com", "z@x.com", "n@x.com",
     "jane@x.com", "bob@y.com"}

\* C29: every key of the contact maps gathered for a row is a lowercase
\* email, for the entries written as addresses and for the entries resolved
\* through the nickname table.
C29_KeysLowercase ==
    JustGathered =>
        \A e \in (DOMAIN event.cohosts) \cup (DOMAIN event.panelists) :
            e \in LowercaseEmails

\* the initialisation of the current pass was completed
InitCompleted == pass >= 1 /\ result \in {"running", "done", "crashed"}

\* the error records of a log that belong to row i
ErrorsOf(log, i) == {e \in 1..Len(log) : log[e].lvl = "ERROR" /\ log[e].row = i}

\* the calls of the current pass for row i that failed
FailedCalls(i) == {k \in DOMAIN calls : calls[k].pass = pass /\ calls[k].row = i /\ ~calls[k].ok}

\* C30: in a pass that completed its initialisation the brief log is the
\* records of warning and above, in order, and the full log the records of
\* info and above; every failed remote operation and write-back of a row has
\* left an error record in both; and when the pass is over the logs have been
\* handed to the bot, after the calls of the last row.
C30_LogsComplete ==
    InitCompleted =>
        /\ briefLog = SelectSeq(fullLog, LAMBDA r : levelno(r.lvl) >= levelno("WARNING"))
        /\ \A e \in 1..Len(fullLog) : levelno(fullLog[e].lvl) >= levelno("INFO")
        /\ \A i \in 1..NumRows :
               /\ Cardinality(ErrorsOf(briefLog, i)) >= Cardinality(FailedCalls(i))
               /\ Cardinality(ErrorsOf(fullLog, i)) >= Cardinality(FailedCalls(i))
        /\ pc = "idle" =>
               \E k \in DOMAIN calls :
                   /\ calls[k].pass = pass /\ calls[k].op = "messages.create"
                   /\ \A j \in DOMAIN calls : calls[j].pass = pass => j <= k

\* the maps a row's cells and the configuration as loaded give for it
FreshIntent(i) ==
    GatherProperties(rows[i], spColumnMap, env.wip, SHAREPOINT_PARAMS.nicknames).event

\* C33: processing a row leaves the table of default parameters as the pass
\* loaded it, and the panelists and cohosts gathered for a row are those its
\* cells and the configuration give, whatever rows came before it.
C33_ParamsUnchanged ==
    [][ /\ pass' = pass => WEBEX_INTEGRATION_PARAMS' = WEBEX_INTEGRATION_PARAMS
        /\ (pc = "loop" /\ pc' \in {"create", "get"}) =>
               /\ event'.panelists = FreshIntent(idx).panelists
               /\ event'.cohosts = FreshIntent(idx).cohosts
      ]_vars

\* C34: a contacts cell that is None or empty resolves to the empty mapping,
\* whatever the nickname table holds.
C34_EmptyContacts ==
    (/\ JustGathered
     /\ "cohosts" \in DOMAIN spColumnMap
     /\ rows[idx].Cohosts \in {NoneVal, ""}) =>
        event.cohosts = EmptyMap

\* the remote invitees of a webinar that are neither panelist nor co-host
Attendees(wid) == {e \in DOMAIN invitees[wid] : ~invitees[wid][e].panelist /\ ~invitees[wid][e].coHost}

\* C35: an invitee that is neither panelist nor co-host is never the target
\* of an update or a delete call, and stays as it is through every step of
\* the reconciliation unless a create call is made for its email.
C35_AttendeesUntouched ==
    [][ /\ \A k \in (Len(calls) + 1)..Len(calls') :
               calls'[k].op \in {"meeting_invitees.update", "meeting_invitees.delete"} =>
                   /\ calls'[k].wid \in DOMAIN invitees
                   /\ calls'[k].email \notin Attendees(calls'[k].wid)
        /\ \A wid \in DOMAIN invitees : \A e \in Attendees(wid) :
               \/ /\ e \in DOMAIN invitees'[wid]
                  /\ invitees'[wid][e] = invitees[wid][e]
               \/ /\ Len(calls') = Len(calls) + 1
                  /\ calls'[Len(calls')].op = "meeting_invitees.create"
                  /\ calls'[Len(calls')].email = e
      ]_vars

\* a row has been reconciled, with an update of another invitee, and the attendee
\* Rex of its webinar is as before
C35_Witness ==
    /\ RowReconciled
    /\ "r@x.com" \in DOMAIN invitees[w]
    /\ invitees[w]["r@x.com"] = Invitee("Rex", FALSE, FALSE)
    /\ CallsOf(pass, idx, "meeting_invitees.update") # {}
    /\ CallsOn(pass, idx, "meeting_invitees.update", "r@x.com") = {}
    /\ CallsOn(pass, idx, "meeting_invitees.delete", "r@x.com") = {}

\* the last listing of invitees made for row i in the current pass failed
LastListingFailed(i) ==
    LET ls == CallsOf(pass, i, "meeting_invitees.list") IN
    /\ ls # {}
    /\ ~calls[CHOOSE k \in ls : \A j \in ls : j <= k].ok

\* C36: when the listing of a webinar's panelists fails, the failure is in
\* both logs, no invitee create, update or delete call is issued for the row
\* in this pass, and the pass has gone on to the row after it.
C36_ListFailureSkipsInvitees ==
    \A i \in 1..NumRows :
        (LastListingFailed(i) /\ ~(idx = i /\ pc = "list")) =>
            /\ idx > i
            /\ result \in {"running", "done", "crashed"}
            /\ \A op \in InviteeWriteOps : CallsOf(pass, i, op) = {}
            /\ \E e \in 1..Len(briefLog) :
                   briefLog[e] = Entry("ERROR", "Failed to process invitees", i)
            /\ \E e \in 1..Len(fullLog) :
                   fullLog[e] = Entry("ERROR", "Failed to process invitees", i)

\* the listing failed for the first row, which wanted an invitee created and
\* got none, and the second row has had its webinar fetched
C36_Witness ==
    /\ LastListingFailed(1)
    /\ idx = 2
    /\ pc \in {"update", "count", "list", "invitees"}
    /\ \A op \in InviteeWriteOps : CallsOf(pass, 1, op) = {}
    /\ WebinarId(1) \in DOMAIN invitees
    /\ invitees[WebinarId(1)] = EmptyMap

\* the id of the webinar created for row i in the current pass
CreatedId(i) ==
    calls[CHOOSE k \in CallsOf(pass, i, "meetings.create") : calls[k].ok].wid

\* C37: for a row without webinar id whose create succeeded, the invitees are
\* reconciled in the same pass on the webinar just created: its invitees are
\* listed and every invitee call of the row is about that webinar, also when
\* the write-back of the id to the row failed.
C37_CreatedRowReconciled ==
    \A i \in 1..NumRows :
        (CreatedIn(pass, i) /\ (idx > i \/ (idx = i /\ pc = "invitees"))) =>
            /\ \E k \in CallsOf(pass, i, "meeting_invitees.list") :
                   calls[k].wid = CreatedId(i)
            /\ \A op \in InviteeOps : \A k \in CallsOf(pass, i, op) :
                   calls[k].wid = CreatedId(i)
            /\ idx = i => w = CreatedId(i)

\* the write-back of the id of a webinar created for the current row failed,
\* and a@x.com has all the same been invited to that webinar
C37_Witness ==
    /\ RowReconciled
    /\ CreatedIn(pass, idx)
    /\ \E k \in CallsOf(pass, idx, "row.update") : ~calls[k].ok
    /\ rows[idx].WebinarID = NoneVal
    /\ \E k \in CallsOn(pass, idx, "meeting_invitees.create", "a@x.com") :
           calls[k].ok /\ calls[k].wid = w
    /\ "a@x.com" \in DOMAIN invitees[w]

(***************************************************************************)
(* The other components.  While one of them is at work the scheduler is at *)
(* rest, before its first pass, and the remaining components are idle.     *)
(***************************************************************************)
SchedulerAtRest ==
    InitWith(CHOOSE e \in GoodEnvs : e.env.wip = EmptyMap,
             [i \in 1..NumRows |-> Profile(BaseCells, FALSE, BaseWebinar, EmptyMap)])

(***************************************************************************)
(* sp.py: SharePointItem, a dictionary that remembers what it was loaded   *)
(* with and patches upstream, on save, the fields that changed.            *)
(***************************************************************************)
MaxSaves == 3

ItemKeys == {"Title", "WebinarID"}
ItemValues == {"v1", "v2"}

\* graph_item.fields.additional_data of the items of the model
LoadedItems == { "Title" :> "v1", ("Title" :> "v1") @@ ("WebinarID" :> "v1") }

\* a variant that takes every field of the item for changed
changesEverything(self, original) == self

\* changes = {k: v for k, v in self.items()
\*            if k not in self._original_data or self._original_data[k] != v}
changes(self, original) ==
    [k \in {j \in DOMAIN self : j \notin DOMAIN original \/ original[j] # self[j]} |-> self[k]]

\* SharePointItem.__init__
SaveInit ==
    /\ SchedulerAtRest /\ AuthIdle /\ ChunkIdle /\ BotIdle
    /\ item \in LoadedItems
    /\ original_data = item
    /\ patches = << >>

\* item[k] = v, by the owner of the item
SetItem ==
    /\ \E k \in ItemKeys, v \in ItemValues : item' = Merge(item, k :> v)
    /\ UNCHANGED <<original_data, patches, schedVars, authVars, chunkVars, botVars>>

\* SharePointItem.save; _update_async may raise, and then save raises too,
\* before _original_data is brought up to date
save ==
    /\ Len(patches) < MaxSaves
    /\ LET c == changes(item, original_data) IN
         IF c # EmptyMap
         THEN \E ok \in BOOLEAN :
                /\ patches' = Append(patches, [item |-> item, changes |-> c,
                                               sent |-> TRUE, ok |-> ok])
                /\ original_data' = IF ok THEN Merge(original_data, c) ELSE original_data
         ELSE /\ patches' = Append(patches, [item |-> item, changes |-> c,
                                             sent |-> FALSE, ok |-> TRUE])
              /\ original_data' = original_data
    /\ UNCHANGED <<item, schedVars, authVars, chunkVars, botVars>>

SaveNext == SetItem \/ save

SaveSpec == SaveInit /\ [][SaveNext]_vars

\* C32: save sends upstream exactly the keys of the item that are new or whose
\* value differs from the snapshot, with their current values, and nothing
\* when there is no such key; the snapshot is the item as loaded until a save
\* succeeds and from then on the item as of the last successful save; and a
\* save that follows a successful save of the same item sends nothing.
C32_SaveSendsChanges ==
    [][ Len(patches') = Len(patches) + 1 =>
            LET call == patches'[Len(patches')]
                differing == {k \in DOMAIN item :
                                 k \notin DOMAIN original_data \/ original_data[k] # item[k]}
            IN  /\ DOMAIN call.changes = differing
                /\ \A k \in differing : call.changes[k] = item[k]
                /\ call.sent <=> differing # {}
                /\ original_data' = IF call.sent /\ call.ok THEN item ELSE original_data
                /\ (/\ patches # << >>
                    /\ patches[Len(patches)].ok
                    /\ patches[Len(patches)].item = item) => ~call.sent
      ]_vars

\* a first save sent the new key WebinarID alone, and a second save of the
\* same item sent nothing
C32_Witness ==
    /\ Len(patches) >= 2
    /\ patches[1].sent /\ patches[1].ok
    /\ patches[1].changes = "WebinarID" :> "v2"
    /\ "Title" \in DOMAIN patches[1].item
    /\ patches[2].item = patches[1].item
    /\ ~patches[2].sent

(***************************************************************************)
(* auth.py: the OAuth redirect and its callback.  Every browser has a      *)
(* Flask session of its own; a callback request carries whatever query     *)
(* arguments its sender chose.                                             *)
(***************************************************************************)
MaxUuids == 2
MaxTokenPosts == 2

Browsers == {"b1", "b2"}

\* str(uuid4()): a state not produced before
uuid4(n) == "s" \o ToString(n)

\* the query arguments of the model; NoneVal is an argument left out
ArgErrors == {NoneVal, "", "access_denied"}
ArgCodes == {NoneVal, "", "code1"}
ArgStates == {NoneVal, "", uuid4(1), uuid4(2), "forged"}

\* request.args.get(name, default)
ArgsGet(arg, default) == IF arg = NoneVal THEN default ELSE arg

\* a variant of the callback that does not compare the state with the session
CallbackReturnStateUnchecked(error, code, state, sess) ==
    IF ArgsGet(error, "") # "" THEN "Error"
    ELSE IF code \in {NoneVal, ""} THEN "did not return authorization code"
    ELSE IF ArgsGet(state, "") = "" THEN "did not return state"
    ELSE "token request"

\* callback, up to the token request: the message returned, "KeyError" when
\* session['oauth_state'] is read from a session that has none, or "token
\* request" when the checks are passed
CallbackReturn(error, code, state, sess) ==
    IF ArgsGet(error, "") # "" THEN "Error"
    ELSE IF code \in {NoneVal, ""} THEN "did not return authorization code"
    ELSE IF ArgsGet(state, "") = "" THEN "did not return state"
    ELSE IF "oauth_state" \notin DOMAIN sess THEN "KeyError"
    ELSE IF state # sess["oauth_state"] THEN "State does not match"
    ELSE "token request"

AuthInit ==
    /\ SchedulerAtRest /\ SaveIdle /\ ChunkIdle /\ BotIdle
    /\ session = [b \in Browsers |-> EmptyMap]
    /\ uuids = 0
    /\ tokenPosts = << >>
    /\ savedTokens = NoneVal

\* auth: a new state goes into the session of the browser
auth ==
    /\ uuids < MaxUuids
    /\ \E b \in Browsers :
         session' = [session EXCEPT ![b] = Merge(@, "oauth_state" :> uuid4(uuids + 1))]
    /\ uuids' = uuids + 1
    /\ UNCHANGED <<tokenPosts, savedTokens, schedVars, saveVars, chunkVars, botVars>>

\* callback: when the checks are passed the code is posted to the token URI;
\* the tokens of an ok response are saved, unless the parameter store fails
callback ==
    /\ Len(tokenPosts) < MaxTokenPosts
    /\ \E b \in Browsers, error \in ArgErrors, code \in ArgCodes, state \in ArgStates :
         /\ CallbackReturn(error, code, state, session[b]) = "token request"
         /\ \E respOk \in BOOLEAN, saveOk \in BOOLEAN :
              /\ tokenPosts' = Append(tokenPosts,
                                      [browser |-> b, error |-> error, code |-> code,
                                       state |-> state, session |-> session[b],
                                       ok |-> respOk, saved |-> respOk /\ saveOk])
              /\ savedTokens' = IF respOk /\ saveOk THEN "tokens of " \o code
                                ELSE savedTokens
    /\ UNCHANGED <<session, uuids, schedVars, saveVars, chunkVars, botVars>>

AuthNext == auth \/ callback

AuthSpec == AuthInit /\ [][AuthNext]_vars

\* C38: tokens are requested, and so saved, only by a callback request that
\* carries no error, carries an authorization code, and carries the state
\* that an earlier auth() stored in the session of the same browser; tokens
\* are in the parameter store only after such a request.
C38_TokensOnlyAfterChecks ==
    /\ \A k \in 1..Len(tokenPosts) :
           LET post == tokenPosts[k] IN
           /\ post.error \in {NoneVal, ""}
           /\ post.code \notin {NoneVal, ""}
           /\ post.state \notin {NoneVal, ""}
           /\ "oauth_state" \in DOMAIN post.session
           /\ post.state = post.session["oauth_state"]
           /\ post.state \in {uuid4(n) : n \in 1..uuids}
    /\ savedTokens # NoneVal =>
           \E k \in 1..Len(tokenPosts) :
               tokenPosts[k].saved /\ savedTokens = "tokens of " \o tokenPosts[k].code

\* the second browser, sent through auth() after the first, came back with
\* its own state and a code, and the tokens were saved
C38_Witness ==
    /\ savedTokens = "tokens of code1"
    /\ Len(tokenPosts) = 1
    /\ tokenPosts[1].browser = "b2"
    /\ tokenPosts[1].state = uuid4(2)
    /\ session["b1"] = ("oauth_state" :> uuid4(1))

(***************************************************************************)
(* schedule.py, verbose logging: the full log is posted to the bot room in *)
(* chunks.  A text is the sequence of its pieces, the header or a line     *)
(* with its newline, each with its length in characters.                   *)
(***************************************************************************)
MaxLines == 3

chunk_limit == 7000

\* "Done creating and updating webinars. Full log follows.\n\n"
Header == [line |-> 0, len |-> 56]

\* the lengths of the lines of the model
LineLengths == {0, 80, 6943, 6944, 6999, 7000}

\* line + '\n', for the line at position n
Piece(n, length) == [line |-> n, len |-> length + 1]

\* len(text)
RECURSIVE TextLen(_)
TextLen(text) == IF text = << >> THEN 0 ELSE Head(text).len + TextLen(Tail(text))

\* the text of the messages, one after another
RECURSIVE Concatenated(_)
Concatenated(msgs) ==
    IF msgs = << >> THEN << >> ELSE Head(msgs).text \o Concatenated(Tail(msgs))

\* botApi.messages.create(roomId, text, parentId)
Message(text, parentId) ==
    [id |-> "m" \o ToString(Len(messages) + 1), text |-> text, parentId |-> parentId]

ChunkInit ==
    /\ SchedulerAtRest /\ SaveIdle /\ AuthIdle /\ BotIdle
    /\ lines \in UNION {[1..n -> LineLengths] : n \in 0..MaxLines}
    /\ lineNo = 1
    /\ current_chunk = << Header >>
    /\ parent_id = NoneVal
    /\ messages = << >>
    /\ chunkPc = "loop"

\* the line fits into the current chunk
AppendLine ==
    /\ chunkPc = "loop"
    /\ lineNo <= Len(lines)
    /\ TextLen(current_chunk) + lines[lineNo] + 1 <= chunk_limit
    /\ current_chunk' = Append(current_chunk, Piece(lineNo, lines[lineNo]))
    /\ lineNo' = lineNo + 1
    /\ UNCHANGED <<lines, parent_id, messages, chunkPc,
                   schedVars, saveVars, authVars, botVars>>

\* the line does not fit: the chunk is posted and the line starts the next
\* one; a failure of the post ends the posting
PostChunk ==
    /\ chunkPc = "loop"
    /\ lineNo <= Len(lines)
    /\ TextLen(current_chunk) + lines[lineNo] + 1 > chunk_limit
    /\ \E ok \in BOOLEAN :
         IF ok
         THEN /\ messages' = Append(messages, Message(current_chunk, parent_id))
              /\ parent_id' = IF parent_id = NoneVal
                              THEN Message(current_chunk, parent_id).id ELSE parent_id
              /\ current_chunk' = << Piece(lineNo, lines[lineNo]) >>
              /\ lineNo' = lineNo + 1
              /\ chunkPc' = chunkPc
         ELSE /\ chunkPc' = "failed"
              /\ UNCHANGED <<messages, parent_id, current_chunk, lineNo>>
    /\ UNCHANGED <<lines, schedVars, saveVars, authVars, botVars>>

\* after the last line: the remaining chunk is posted
PostLast ==
    /\ chunkPc = "loop"
    /\ lineNo > Len(lines)
    /\ \E ok \in BOOLEAN :
         IF ok
         THEN /\ messages' = Append(messages, Message(current_chunk, parent_id))
              /\ chunkPc' = "done"
         ELSE /\ chunkPc' = "failed"
              /\ messages' = messages
    /\ UNCHANGED <<lines, lineNo, current_chunk, parent_id,
                   schedVars, saveVars, authVars, botVars>>

ChunkNext == AppendLine \/ PostChunk \/ PostLast

ChunkSpec == ChunkInit /\ [][ChunkNext]_vars

\* the header followed by every line of the full log
WholeLog == << Header >> \o [n \in 1..Len(lines) |-> Piece(n, lines[n])]

\* C39: in verbose mode every posted chunk is at most 7000 characters long,
\* the first chunk is posted without a parent and every later one as a reply
\* to the first, and when the posting is done the chunks, one after another,
\* are the header followed by every line of the full log in order.
C39_ChunkedThread ==
    /\ \A k \in 1..Len(messages) :
           /\ TextLen(messages[k].text) <= chunk_limit
           /\ messages[k].parentId = IF k = 1 THEN NoneVal ELSE messages[1].id
    /\ chunkPc = "done" => Concatenated(messages) = WholeLog

(***************************************************************************)
(* The bot's "schedule now" action (src/bot.py, webhook) and the logging   *)
(* of a pass (src/schedule.py, run).  webhook calls schedule.run() in the  *)
(* thread that serves the request; the web server started by app.run       *)
(* serves every request in a thread of its own, and nothing in webhook or  *)
(* run keeps a second request from entering run while a pass is going on.  *)
(* run takes logging.getLogger(__name__), one logger object for the        *)
(* process, and adds the handlers of its own brief and full buffers to it; *)
(* a record logged by any pass is emitted to every handler attached at     *)
(* that moment.                                                            *)
(***************************************************************************)
MaxBotPasses == 3
BotRows == 2
RequestThreads == {"t1", "t2"}

\* a log record, tagged with the pass and the row it comes from
LogRecord(p, row, text) == [pass |-> p, row |-> row, text |-> text]

\* logger.warning / logger.info: every handler attached to the logger
\* receives the record; the brief handler keeps WARNING and above, the full
\* handler INFO and above
Emit(attached, bufs, level, rec) ==
    [q \in DOMAIN bufs |->
        IF q \in attached
        THEN [brief |-> IF level = "warning"
                        THEN Append(bufs[q].brief, rec) ELSE bufs[q].brief,
              full  |-> Append(bufs[q].full, rec)]
        ELSE bufs[q]]

BotInit ==
    /\ SchedulerAtRest /\ SaveIdle /\ AuthIdle /\ ChunkIdle
    /\ threads = [t \in RequestThreads |-> [pc |-> "idle", pass |-> 0, row |-> 0]]
    /\ handlers = {}
    /\ buffers = EmptyMap

\* a "schedule now" submission arrives at a thread: run() begins, creates
\* its buffers, attaches their handlers and logs "Starting..."
webhook(t) ==
    /\ threads[t].pc = "idle"
    /\ Cardinality(DOMAIN buffers) < MaxBotPasses
    /\ LET p == Cardinality(DOMAIN buffers) + 1
           fresh == (p :> [brief |-> << >>, full |-> << >>]) @@ buffers
       IN  /\ handlers' = handlers \cup {p}
           /\ buffers' = Emit(handlers \cup {p}, fresh, "warning",
                              LogRecord(p, 0, "Starting..."))
           /\ threads' = [threads EXCEPT ![t] = [pc |-> "loop", pass |-> p, row |-> 0]]
    /\ UNCHANGED <<schedVars, saveVars, authVars, chunkVars>>

\* the pass takes its next row and logs "Processing"
BeginRowOfPass(t) ==
    /\ threads[t].pc = "loop"
    /\ threads[t].row < BotRows
    /\ threads' = [threads EXCEPT ![t].pc = "row", ![t].row = @ + 1]
    /\ buffers' = Emit(handlers, buffers, "info",
                       LogRecord(threads[t].pass, threads[t].row + 1, "Processing"))
    /\ UNCHANGED <<handlers, schedVars, saveVars, authVars, chunkVars>>

\* the pass has created or updated the webinar of the row and logs it
FinishRowOfPass(t) ==
    /\ threads[t].pc = "row"
    /\ threads' = [threads EXCEPT ![t].pc = "loop"]
    /\ buffers' = Emit(handlers, buffers, "warning",
                       LogRecord(threads[t].pass, threads[t].row, "Updated webinar"))
    /\ UNCHANGED <<handlers, schedVars, saveVars, authVars, chunkVars>>

\* after the last row: "Done" is logged, the logs are posted and the
\* handlers of the pass are removed; webhook returns
closeLogging(t) ==
    /\ threads[t].pc = "loop"
    /\ threads[t].row = BotRows
    /\ buffers' = Emit(handlers, buffers, "warning",
                       LogRecord(threads[t].pass, 0, "Done"))
    /\ handlers' = handlers \ {threads[t].pass}
    /\ threads' = [threads EXCEPT ![t] = [pc |-> "idle", pass |-> 0, row |-> 0]]
    /\ UNCHANGED <<schedVars, saveVars, authVars, chunkVars>>

BotNext ==
    \E t \in RequestThreads :
        webhook(t) \/ BeginRowOfPass(t) \/ FinishRowOfPass(t) \/ closeLogging(t)

BotSpec == BotInit /\ [][BotNext]_vars

\* the threads that are inside run()
InRun == {t \in RequestThreads : threads[t].pc # "idle"}

\* C31: passes never overlap in one process: at most one pass is going on
\* at any time, the brief and the full buffer of a pass hold records of that
\* pass only, and no row is being handled by two passes at the same time.
C31_PassesNeverOverlap ==
    /\ Cardinality(InRun) <= 1
    /\ \A p \in DOMAIN buffers :
           /\ \A k \in 1..Len(buffers[p].brief) : buffers[p].brief[k].pass = p
           /\ \A k \in 1..Len(buffers[p].full) : buffers[p].full[k].pass = p
    /\ \A t, u \in RequestThreads :
           (t # u /\ threads[t].pc = "row" /\ threads[u].pc = "row")
               => threads[t].row # threads[u].row

==============================================================================
